---------------------------- MODULE Spec2Model ----------------------------
(***************************************************************************)
(* A model of the valuation engine of src/fve_agent.py: one FVEAgent       *)
(* instance, its fields, and FVEAgent.run_valuation_process split at the   *)
(* calls it makes (preflight, base cash flow, DCF assumptions, DCF         *)
(* calculation, multiples assumptions, multiples calculation, narrative).  *)
(*                                                                         *)
(* Conventions.                                                            *)
(*  - A Python value is a record [t, v]: None, a non-numeric string        *)
(*    ("abc") or a number.  Percentages are integers in hundredths of a    *)
(*    percent (8% = 800), money and multiples in hundredths (3.42 = 342),  *)
(*    historical line items and share counts are whole numbers.            *)
(*  - A Python string is a TLA+ string; the Python None of a string field  *)
(*    is the string NULL.                                                  *)
(*  - Floating point is modelled by exact rational arithmetic.             *)
(***************************************************************************)
EXTENDS Integers, Sequences, FiniteSets, TLC

VARIABLES
    fve_input_data,            \* self.fve_input_data
    base_fcfe_0,               \* self.base_fcfe_0
    dcf_assumptions,           \* self.dcf_assumptions
    multiples_assumptions,     \* self.multiples_assumptions
    calculated_fve,            \* self.calculated_fve (hundredths)
    method_used,               \* self.method_used
    methodology_text,          \* self.methodology_text
    dcf_failure_reason,        \* self.dcf_failure_reason
    multiples_failure_reason,  \* self.multiples_failure_reason
    dcf_ok,                    \* local dcf_ok of run_valuation_process
    pc,                        \* position inside run_valuation_process
    calls,                     \* methods called so far in this run, in order
    llm_calls,                 \* calls of llm_generate_text_func in this run
    narrative_prompt,          \* final_prompt of the narrative call, if made
    llm_responses,             \* what each call of llm_calls was answered
    previous_run,              \* how the previous run on this instance ended
    instance,                  \* which FVEAgent instance the fields above are
    other,                     \* the fields of the other instance, if any
    interleaved,               \* two runs were under way at the same time
    outcome,                   \* what the run gave its caller
    is_configured,             \* LLMHandler._is_configured (class attribute)
    model,                     \* self.model of each LLMHandler instance
    generated,                 \* the last call of generate_text and its result
    stage1_years               \* self.stage1_years

vars == <<fve_input_data, base_fcfe_0, dcf_assumptions, multiples_assumptions,
          calculated_fve, method_used, methodology_text, dcf_failure_reason,
          multiples_failure_reason, dcf_ok, pc, calls, llm_calls,
          narrative_prompt, llm_responses, previous_run, instance, other,
          interleaved, outcome, is_configured, model, generated,
          stage1_years>>

\* the state of llm_handler.py
llm_handler == <<is_configured, model, generated>>

----------------------------------------------------------------------------
(* Python values *)

NULL == "<None>"

None == [t |-> "none", v |-> 0]

Str == [t |-> "str", v |-> 0]

Num(n) == [t |-> "num", v |-> n]

IsNone(x) == x.t = "none"

IsNum(x) == x.t = "num"

\* bool(x) is False: None, 0 (the non-numeric string "abc" is truthy)
\* a value that is not a positive number counts as missing
Falsy_NotPositive(x) == ~IsNum(x) \/ x.v <= 0

Falsy(x) == IsNone(x) \/ (IsNum(x) /\ x.v = 0)

\* float(x) succeeds
FloatOk(x) == IsNum(x)

\* the message of the exception float(x) raises
FloatError(x) ==
    IF IsNone(x)
    THEN "float() argument must be a string or a real number, not 'NoneType'"
    ELSE "could not convert string to float: 'abc'"

----------------------------------------------------------------------------
(* Text *)

Abs(n) == IF n < 0 THEN -n ELSE n

Digits2(n) == IF n < 10 THEN "0" \o ToString(n) ELSE ToString(n)

\* format(x, ".2f") of the number h/100
Fmt2(h) ==
    (IF h < 0 THEN "-" ELSE "") \o ToString(Abs(h) \div 100) \o "." \o
    Digits2(Abs(h) % 100)

\* str(x) of the float h/100: the shortest decimal, at least one decimal
FloatStr(h) ==
    (IF h < 0 THEN "-" ELSE "") \o ToString(Abs(h) \div 100) \o "." \o
    (IF Abs(h) % 10 = 0 THEN ToString((Abs(h) % 100) \div 10)
     ELSE Digits2(Abs(h) % 100))

\* str(x) of a context value
PyStr(x) ==
    CASE IsNone(x) -> "None"
      [] x.t = "str" -> "abc"
      [] OTHER -> ToString(x.v)

RECURSIVE Join(_, _)
\* sep.join(parts)
Join(sep, parts) ==
    IF parts = <<>> THEN ""
    ELSE IF Len(parts) = 1 THEN parts[1]
    ELSE parts[1] \o sep \o Join(sep, Tail(parts))

\* c.isspace() of a one-character string
IsSpace(c) == c \in {" ", "\n", "\t"}

RECURSIVE LStrip(_)
LStrip(s) ==
    IF Len(s) > 0 /\ IsSpace(SubSeq(s, 1, 1))
    THEN LStrip(SubSeq(s, 2, Len(s))) ELSE s

RECURSIVE RStrip(_)
RStrip(s) ==
    IF Len(s) > 0 /\ IsSpace(SubSeq(s, Len(s), Len(s)))
    THEN RStrip(SubSeq(s, 1, Len(s) - 1)) ELSE s

\* s.strip()
Strip(s) == RStrip(LStrip(s))

LowerLetters == "abcdefghijklmnopqrstuvwxyz"

UpperLetters == "ABCDEFGHIJKLMNOPQRSTUVWXYZ"

UpperChar(c) ==
    IF \E i \in 1..26 : SubSeq(LowerLetters, i, i) = c
    THEN LET i == CHOOSE j \in 1..26 : SubSeq(LowerLetters, j, j) = c
         IN  SubSeq(UpperLetters, i, i)
    ELSE c

RECURSIVE Upper(_)
\* s.upper()
Upper(s) ==
    IF Len(s) = 0 THEN ""
    ELSE UpperChar(SubSeq(s, 1, 1)) \o Upper(SubSeq(s, 2, Len(s)))

\* s.upper().startswith(p), for an upper-case p
UpperStartsWith(s, p) ==
    Len(s) >= Len(p) /\ Upper(SubSeq(s, 1, Len(p))) = p

\* sub in text
Contains(text, sub) ==
    \E i \in 1..(Len(text) - Len(sub) + 1) :
        SubSeq(text, i, i + Len(sub) - 1) = sub

----------------------------------------------------------------------------
(* Configuration of the agent (FVEAgent.__init__) *)

\* stage1_years: the configured stage-1 horizon
Stage1Years == 2

\* MIN_KE_G_SPREAD_DEFAULT = 0.005, as hundredths of a percent
MIN_KE_G_SPREAD_DEFAULT == 50

\* self.min_ke_g_spread_decimal (kept in hundredths of a percent)
min_ke_g_spread_decimal == MIN_KE_G_SPREAD_DEFAULT

\* self.min_ke_g_spread_pct = self.min_ke_g_spread_decimal * 100
\* no spread is asked of the answer
min_ke_g_spread_pct_Unchecked == min_ke_g_spread_decimal - 100000

min_ke_g_spread_pct == min_ke_g_spread_decimal

\* rfr = 0.04 and erp = 0.05, as hundredths of a percent
rfr == 400

erp == 500

\* the rates of the second instance: RFR_BASELINE = 0.042 and
\* ERP_ADJUSTED = 0.045
RFR_BASELINE == 420

ERP_ADJUSTED == 450

\* self.rfr and self.erp of instance id, as configured
RfrOf(id) == IF id = 2 THEN RFR_BASELINE ELSE rfr

ErpOf(id) == IF id = 2 THEN ERP_ADJUSTED ELSE erp

----------------------------------------------------------------------------
(* The valuation context handed to run_valuation_process *)

\* historical_financials: lists with the most recent year first
MkHist(ys, ni, capx, da, nwc, rev, cfo) ==
    [present |-> TRUE, years |-> ys, netIncome_list |-> ni,
     capitalExpenditures_list |-> capx,
     depreciationAndAmortizationCF_list |-> da,
     changeInWorkingCapital_list |-> nwc, totalRevenue_list |-> rev,
     cashFlowFromOperations_list |-> cfo]

\* one reported year
OneYear(ni, capx, da, nwc) ==
    MkHist(<<2024>>, <<ni>>, <<capx>>, <<da>>, <<nwc>>, <<Num(500)>>,
           <<Num(120)>>)

\* no year reported: every list is empty
EmptyHist == MkHist(<<>>, <<>>, <<>>, <<>>, <<>>, <<>>, <<>>)

\* the context has no 'historical_financials' key
AbsentHist == [EmptyHist EXCEPT !.present = FALSE]

Hists ==
    {EmptyHist, AbsentHist,
     OneYear(Num(100), Num(-30), Num(10), Num(5)),
     MkHist(<<2024>>, <<Num(100)>>, <<Num(30)>>, <<Num(10)>>, <<Num(5)>>,
            <<Str>>, <<Num(120)>>),
     OneYear(Num(-100), Num(-30), Num(10), Num(5)),
     OneYear(None, Num(-30), Num(10), Num(5)),
     OneYear(Num(100), None, None, Num(5)),
     OneYear(None, None, None, None),
     OneYear(Num(100), Str, Num(10), Num(5)),
     OneYear(Num(100), Num(-30), Num(10), Str)}

BetaValues == {None, Str, Num(120)}

SharesValues == {None, Num(0), Num(-4), Num(4), Str}

\* every shape of the history with every beta and share count
HistContexts ==
    [companyName : {"Acme"}, ticker : {"ACM"},
     beta : BetaValues, sharesOutstanding : SharesValues,
     trailingPE : {None, Num(1500)}, forwardPE : {None},
     trailingEps : {Num(300)}, forwardEps : {None},
     historical_financials : Hists]

\* every shape of the quote's multiples and earnings
QuoteContexts ==
    [companyName : {"Acme"}, ticker : {"ACM"},
     beta : {None, Num(120)}, sharesOutstanding : {None, Num(4)},
     trailingPE : {None, Str, Num(1500)}, forwardPE : {None, Num(1800)},
     trailingEps : {None, Str, Num(300)}, forwardEps : {None, Num(350)},
     historical_financials : {OneYear(Num(100), Num(-30), Num(10), Num(5))}]

\* the contexts handed to run_valuation_process
Contexts == HistContexts \cup QuoteContexts

\* the contexts of a further run on the same instance
RerunContexts ==
    [companyName : {"Acme"}, ticker : {"ACM"},
     beta : {None, Num(120)}, sharesOutstanding : {Num(4)},
     trailingPE : {Num(1500)}, forwardPE : {None},
     trailingEps : {Num(300)}, forwardEps : {None},
     historical_financials : {OneYear(Num(100), Num(-30), Num(10), Num(5))}]

\* the context before the first run (self.fve_input_data = None)
NoContext ==
    [companyName |-> NULL, ticker |-> NULL, beta |-> None,
     sharesOutstanding |-> None, trailingPE |-> None, forwardPE |-> None,
     trailingEps |-> None, forwardEps |-> None,
     historical_financials |-> AbsentHist]

\* company_display_name / company_display
CompanyDisplay(ctx) == ctx.companyName \o " (" \o ctx.ticker \o ")"

----------------------------------------------------------------------------
(* _reset_internal_state *)

ResetDcfAssumptions ==
    [fcfe_growth_stage1_pct |-> <<>>,
     justification_fcfe_growth_stage1 |-> "NG",
     perpetual_growth_rate_g_pct |-> None,
     justification_perpetual_growth_rate_g |-> "NG",
     cost_of_equity_ke_pct |-> None, justification_ke |-> "NG",
     beta_used |-> None, rfr_pct_used |-> RfrOf(instance),
     erp_pct_used |-> ErpOf(instance)]

ResetMultiplesAssumptions ==
    [selected_pe_multiple_value |-> None, selected_pe_multiple_type |-> NULL,
     justification_pe_multiple |-> "NG", selected_eps_value |-> None,
     selected_eps_type |-> NULL, justification_eps_selection |-> "NG"]

ResetMethodologyText == "Valuation process not yet run."

NoOutcome == [kind |-> "none", fve |-> None, text |-> NULL, exc |-> NULL]

\* the computed value is not handed back
Returned_NoValue(fve, text) ==
    [kind |-> "returned", fve |-> None, text |-> text, exc |-> NULL]

Returned(fve, text) ==
    [kind |-> "returned", fve |-> fve, text |-> text, exc |-> NULL]

Raised(exc) == [kind |-> "raised", fve |-> None, text |-> NULL, exc |-> exc]

----------------------------------------------------------------------------
(* run_valuation_process, lines 303-310: the DCF preflight *)

PreflightParts(ctx) ==
    (IF IsNone(ctx.beta) THEN <<"Beta missing">>
     ELSE IF ~FloatOk(ctx.beta)
          THEN <<"Beta '" \o PyStr(ctx.beta) \o "' not numeric">>
          ELSE <<>>)
    \o (IF Falsy(ctx.sharesOutstanding) THEN <<"Shares Outstanding missing">>
        ELSE <<>>)

\* the reason without its closing period
PreflightReason_NoPeriod(ctx) ==
    IF PreflightParts(ctx) # <<>> THEN Join(", ", PreflightParts(ctx)) ELSE NULL

PreflightReason(ctx) ==
    IF PreflightParts(ctx) # <<>>
    THEN Join(", ", PreflightParts(ctx)) \o "."
    ELSE NULL

\* the fallback is skipped
AfterDcfPath_Skip(ok) == "final"

\* lines 317-323: after the DCF attempt, Multiples unless DCF succeeded
AfterDcfPath(ok) == IF ~ok THEN "multiples" ELSE "final"

\* line 312: the DCF steps run only with no failure reason so far
AfterPreflight(reason) == IF reason = NULL THEN "base" ELSE AfterDcfPath(FALSE)

\* how the run before the one that starts ended: there was none, it raised,
\* or it returned with a method
PreviousRun ==
    CASE pc = "idle" -> "none"
      [] pc = "raised" -> "raised"
      [] OTHER -> method_used

\* the reasons of the previous run are left in place
RunValuationProcess_KeepsReasons(ctx) ==
    /\ fve_input_data' = ctx
    /\ base_fcfe_0' = None
    /\ dcf_assumptions' = ResetDcfAssumptions
    /\ multiples_assumptions' = ResetMultiplesAssumptions
    /\ calculated_fve' = None
    /\ method_used' = NULL
    /\ methodology_text' = ResetMethodologyText
    /\ multiples_failure_reason' = multiples_failure_reason
    /\ dcf_failure_reason' = PreflightReason(ctx)
    /\ dcf_ok' = FALSE
    /\ pc' = AfterPreflight(PreflightReason(ctx))
    /\ calls' = <<"preflight">>
    /\ llm_calls' = <<>>
    /\ narrative_prompt' = NULL
    /\ llm_responses' = <<>>
    /\ previous_run' = PreviousRun
    /\ UNCHANGED <<stage1_years, llm_handler, instance, other, interleaved>>
    /\ outcome' = NoOutcome

RunValuationProcess(ctx) ==
    /\ fve_input_data' = ctx
    /\ base_fcfe_0' = None
    /\ dcf_assumptions' = ResetDcfAssumptions
    /\ multiples_assumptions' = ResetMultiplesAssumptions
    /\ calculated_fve' = None
    /\ method_used' = NULL
    /\ methodology_text' = ResetMethodologyText
    /\ multiples_failure_reason' = NULL
    /\ dcf_failure_reason' = PreflightReason(ctx)
    /\ dcf_ok' = FALSE
    /\ pc' = AfterPreflight(PreflightReason(ctx))
    /\ calls' = <<"preflight">>
    /\ llm_calls' = <<>>
    /\ narrative_prompt' = NULL
    /\ llm_responses' = <<>>
    /\ previous_run' = PreviousRun
    /\ UNCHANGED <<stage1_years, llm_handler, instance, other, interleaved>>
    /\ outcome' = NoOutcome

\* a caller starts a run: the first on a new instance, or a further one
StartRun ==
    /\ pc \in {"idle", "returned", "raised"}
    /\ \E ctx \in (IF pc = "idle" THEN Contexts ELSE RerunContexts) :
           RunValuationProcess(ctx)

----------------------------------------------------------------------------
(* _calculate_base_fcfe_zero *)

\* get_most_recent: index 0 of the list, None for an empty list
\* a missing value is read as zero
get_most_recent_Zero(dl) ==
    IF dl # <<>> /\ ~IsNone(dl[1]) THEN dl[1] ELSE Num(0)

get_most_recent(dl) == IF dl # <<>> /\ ~IsNone(dl[1]) THEN dl[1] ELSE None

CritNames == <<"NI", "Capex", "D&A", "NWC">>

CritValues(hist) ==
    <<get_most_recent(hist.netIncome_list),
      get_most_recent(hist.capitalExpenditures_list),
      get_most_recent(hist.depreciationAndAmortizationCF_list),
      get_most_recent(hist.changeInWorkingCapital_list)>>

RECURSIVE MissingFrom(_, _)
\* [k for k, v in crit.items() if v is None], from position i on
MissingFrom(crit, i) ==
    IF i > Len(crit) THEN <<>>
    ELSE (IF IsNone(crit[i]) THEN <<CritNames[i]>> ELSE <<>>)
         \o MissingFrom(crit, i + 1)

\* the TypeError of ni - (abs(capx) - da) - nwc, in evaluation order
BaseTypeError(ni, capx, da, nwc) ==
    CASE ~IsNum(capx) -> "bad operand type for abs(): 'str'"
      [] ~IsNum(da) -> "unsupported operand type(s) for -: 'float' and 'str'"
      [] ~IsNum(ni) -> "unsupported operand type(s) for -: 'str' and 'float'"
      [] ~IsNum(nwc) -> "unsupported operand type(s) for -: 'float' and 'str'"
      [] OTHER -> NULL

\* capex is subtracted with the sign it comes with
FcfeZero_SignedCapex(ni, capx, da, nwc) == ni - (capx - da) - nwc

\* ni - (abs(capx) - da) - nwc
FcfeZero(ni, capx, da, nwc) == ni - (Abs(capx) - da) - nwc

\* the result of _calculate_base_fcfe_zero: [ok, base, reason]
CalcBase(ctx) ==
    LET hist == ctx.historical_financials
        crit == CritValues(hist)
        miss == MissingFrom(crit, 1)
        terr == BaseTypeError(crit[1], crit[2], crit[3], crit[4])
    IN  IF ~hist.present
        THEN [ok |-> FALSE, base |-> None,
              reason |-> "Historical financials data not available."]
        ELSE IF miss # <<>>
        THEN [ok |-> FALSE, base |-> None,
              reason |-> "Missing critical FCFE_0 inputs: "
                         \o Join(", ", miss) \o "."]
        ELSE IF terr # NULL
        THEN [ok |-> FALSE, base |-> None,
              reason |-> "FCFE_0 calculation type error: " \o terr]
        ELSE [ok |-> TRUE,
              base |-> Num(FcfeZero(crit[1].v, crit[2].v, crit[3].v,
                                    crit[4].v)),
              reason |-> NULL]

\* the DCF request is made whatever the base step gave
AfterBase_Always(ok, base) == "dcf_assumptions"

\* lines 313-314: the next DCF step runs only after a base cash flow
AfterBase(ok, base) ==
    IF ok /\ ~IsNone(base) THEN "dcf_assumptions" ELSE AfterDcfPath(FALSE)

CalculateBaseFcfeZero ==
    /\ pc = "base"
    /\ LET r == CalcBase(fve_input_data)
       IN  /\ base_fcfe_0' = r.base
           /\ dcf_failure_reason' =
                  IF r.ok THEN dcf_failure_reason ELSE r.reason
           /\ pc' = AfterBase(r.ok, r.base)
    /\ calls' = Append(calls, "base")
    /\ UNCHANGED <<stage1_years, llm_handler, instance, other, interleaved, llm_responses, previous_run,
                   fve_input_data, dcf_assumptions, multiples_assumptions,
                   calculated_fve, method_used, methodology_text,
                   multiples_failure_reason, dcf_ok, llm_calls,
                   narrative_prompt, outcome>>

----------------------------------------------------------------------------
(* The text-generation capability: what llm_generate_text_func may do *)

\* the call raises
LlmRaise == [kind |-> "raise"]

\* the call returns None or ""
LlmEmpty == [kind |-> "empty"]

\* a non-empty text with no parseable JSON in it
LlmText == [kind |-> "text"]

\* a fenced JSON number: json.loads gives a truthy value that is no container
LlmScalar == [kind |-> "scalar"]

LlmErrorMessage == "timeout"

\* repr(x) of a JSON value
Repr(x) ==
    CASE IsNone(x) -> "None"
      [] x.t = "str" -> "'abc'"
      [] OTHER -> FloatStr(x.v)

\* repr of a JSON list
ReprList(items) ==
    "[" \o Join(", ", [i \in 1..Len(items) |-> Repr(items[i])]) \o "]"

\* _extract_json_from_response: the parsed value, or None
ExtractJson(resp) ==
    CASE resp.kind = "json" -> [found |-> TRUE, container |-> TRUE]
      [] resp.kind = "scalar" -> [found |-> TRUE, container |-> FALSE]
      [] OTHER -> [found |-> FALSE, container |-> FALSE]

\* "not pa": nothing parsed, or an empty object
NotParsed(resp) ==
    \/ ~ExtractJson(resp).found
    \/ (ExtractJson(resp).container /\ resp.keys = {} /\ ~resp.extra)

RECURSIVE MissingKeys(_, _, _)
\* [k for k in req_k if k not in pa], from position i on
MissingKeys(req, keys, i) ==
    IF i > Len(req) THEN <<>>
    ELSE (IF req[i] \in keys THEN <<>> ELSE <<req[i]>>)
         \o MissingKeys(req, keys, i + 1)

\* _summarize_financial_trends_for_llm raises TypeError: abs() of a string
SummarizeRaises(hist) ==
    LET ay == IF Len(hist.years) < 3 THEN Len(hist.years) ELSE 3
        bad(l) == /\ Len(l) >= ay
                  /\ \E i \in 1..ay : l[i].t = "str"
    IN  /\ hist.present
        /\ hist.years # <<>>
        /\ \/ bad(hist.totalRevenue_list)
           \/ bad(hist.netIncome_list)
           \/ bad(hist.cashFlowFromOperations_list)
           \/ bad(hist.capitalExpenditures_list)

----------------------------------------------------------------------------
(* _generate_dcf_assumptions_with_llm *)

\* the values of DCFAssumptionKeys, in the order of dir(DCFAssumptionKeys)
DCFAssumptionKeys ==
    <<"beta_used_in_ke_calc", "cost_of_equity_ke_pct", "justification_ke",
      "justification_perpetual_growth", "justification_stage_1_growth",
      "perpetual_growth_rate_g_pct", "stage_1_fcfe_growth_rates_pct">>

DcfKeySet == {DCFAssumptionKeys[i] : i \in 1..Len(DCFAssumptionKeys)}

\* a JSON object answering the DCF request
DcfJson(keys, extra, s1, g, ke) ==
    [kind |-> "json", keys |-> keys, extra |-> extra, s1 |-> s1, g |-> g,
     ke |-> ke]

\* a stage-1 value that is a list
AList(items) == [list |-> TRUE, items |-> items, val |-> None]

\* a stage-1 value that is no list
NoList(val) == [list |-> FALSE, items |-> <<>>, val |-> val]

ReprS1(s1) == IF s1.list THEN ReprList(s1.items) ELSE Repr(s1.val)

Fail(reason, a, called) ==
    [ret |-> "false", reason |-> reason, a |-> a, called |-> called]

\* any list is taken, whatever its length
Stage1ShapeOk_AnyLength(s1) == s1.list

\* line 101: the stage-1 value is a list of exactly stage1_years items
Stage1ShapeOk(s1) == s1.list /\ Len(s1.items) = stage1_years

\* only Ke is stored
StoreGAndKe_KeOnly(a, g, ke) == [a EXCEPT !.cost_of_equity_ke_pct = ke]

\* line 107: g and Ke are stored together, after every check
StoreGAndKe(a, g, ke) ==
    [a EXCEPT !.perpetual_growth_rate_g_pct = g, !.cost_of_equity_ke_pct = ke]

\* lines 99-111: the checks on a response that has every required key
ValidateDcf(a, resp) ==
    LET s1 == resp.s1
        a1 == [a EXCEPT !.fcfe_growth_stage1_pct =
                            [i \in 1..Len(s1.items) |-> s1.items[i].v]]
    IN  IF ~Stage1ShapeOk(s1)
        THEN Fail("'stage_1_fcfe_growth_rates_pct' is not a list of "
                  \o ToString(stage1_years) \o " items as requested. Got: "
                  \o ReprS1(s1), a, TRUE)
        ELSE IF \E i \in 1..Len(s1.items) : ~IsNum(s1.items[i])
        THEN Fail("'stage_1_fcfe_growth_rates_pct' contains non-numeric values.",
                  a, TRUE)
        ELSE IF ~FloatOk(resp.g)
        THEN Fail("Error parsing numeric values or types from LLM DCF assumptions: "
                  \o FloatError(resp.g), a1, TRUE)
        ELSE IF ~FloatOk(resp.ke)
        THEN Fail("Error parsing numeric values or types from LLM DCF assumptions: "
                  \o FloatError(resp.ke), a1, TRUE)
        ELSE IF resp.ke.v <= 0
        THEN Fail("Cost of Equity (Ke=" \o FloatStr(resp.ke.v)
                  \o "%) from LLM must be positive.", a1, TRUE)
        ELSE IF resp.g.v >= resp.ke.v - min_ke_g_spread_pct
        THEN Fail("Perpetual growth (" \o Fmt2(resp.g.v)
                  \o "%) must be less than Cost of Equity ("
                  \o Fmt2(resp.ke.v) \o "%) by at least "
                  \o Fmt2(min_ke_g_spread_pct) \o "%. Current spread: "
                  \o Fmt2(resp.ke.v - resp.g.v) \o "%.", a1, TRUE)
        ELSE [ret |-> "true", reason |-> NULL, called |-> TRUE,
              a |-> [StoreGAndKe(a1, resp.g, resp.ke) EXCEPT
                       !.justification_fcfe_growth_stage1 = "stage-1 view",
                       !.justification_perpetual_growth_rate_g = "g view",
                       !.justification_ke = "ke view"]]

\* the whole method: [ret, reason, a, called]
GenerateDcf(ctx, base, a, reason, resp) ==
    LET b  == ctx.beta
        ab == [a EXCEPT !.beta_used = b]
    IN  IF IsNone(base)
        THEN Fail("Base FCFE_0 not calculated.", a, FALSE)
        ELSE IF IsNone(b)
        THEN Fail("Beta not available.", a, FALSE)
        ELSE IF ~FloatOk(b)
        THEN Fail("Invalid Beta value: " \o PyStr(b) \o ". Must be numeric.",
                  a, FALSE)
        ELSE IF SummarizeRaises(ctx.historical_financials)
        THEN [ret |-> "raise", reason |-> reason, a |-> ab, called |-> FALSE]
        ELSE IF resp.kind = "raise"
        THEN Fail("LLM call failed (DCF assumptions): " \o LlmErrorMessage,
                  ab, TRUE)
        ELSE IF resp.kind = "empty"
        THEN Fail("LLM returned empty response (DCF assumptions).", ab, TRUE)
        ELSE IF NotParsed(resp)
        THEN Fail(IF reason # NULL THEN reason
                  ELSE "Failed to parse JSON from LLM response (DCF assumptions).",
                  ab, TRUE)
        ELSE IF ~ExtractJson(resp).container
        THEN [ret |-> "raise", reason |-> reason, a |-> ab, called |-> TRUE]
        ELSE IF MissingKeys(DCFAssumptionKeys, resp.keys, 1) # <<>>
        THEN Fail("LLM DCF response missing required keys: "
                  \o Join(", ", MissingKeys(DCFAssumptionKeys, resp.keys, 1)),
                  ab, TRUE)
        ELSE ValidateDcf(ab, resp)

\* the answers the capability may give to the DCF request
GoodS1 == [i \in 1..Stage1Years |-> Num(500)]

DcfS1Choices ==
    {AList(GoodS1),
     AList([i \in 1..Stage1Years |-> Num(-20000)]),
     AList([i \in 1..(Stage1Years - 1) |-> Num(500)]),
     AList([i \in 1..(Stage1Years + 1) |-> Num(500)]),
     AList([i \in 1..Stage1Years |-> IF i = 1 THEN Str ELSE Num(500)]),
     NoList(Str), NoList(Num(500))}

DcfResponses ==
    {LlmRaise, LlmEmpty, LlmText, LlmScalar}
    \cup {DcfJson(k, x, AList(GoodS1), Num(200), Num(1000)) :
            k \in {DcfKeySet \ {"perpetual_growth_rate_g_pct"},
                   DcfKeySet \ {"cost_of_equity_ke_pct",
                                "stage_1_fcfe_growth_rates_pct"}, {}},
            x \in BOOLEAN}
    \cup {DcfJson(DcfKeySet, FALSE, s, Num(200), Num(1000)) :
            s \in DcfS1Choices}
    \cup {DcfJson(DcfKeySet, FALSE, AList(GoodS1), g, ke) :
            g \in {Num(200), Num(949), Num(950), Num(980), Num(1020), Str,
                   None},
            ke \in {Num(1000), Num(0), Str}}
    \cup {DcfJson(DcfKeySet, FALSE, s, g, Num(1000)) :
            s \in {NoList(Str), AList([i \in 1..Stage1Years |-> Num(-20000)])},
            g \in {Num(950), Str}}
    \cup {DcfJson(DcfKeySet \ {"perpetual_growth_rate_g_pct"}, FALSE,
                  NoList(Str), Num(1020), Num(0)),
          DcfJson(DcfKeySet, FALSE,
                  AList([i \in 1..(Stage1Years - 1) |-> Num(500)]),
                  Num(1020), Num(0))}

\* a rejected request is made again
AfterDcfAssumptions_Retry(ret) ==
    CASE ret = "true" -> "dcf_calc"
      [] ret = "false" -> "dcf_assumptions"
      [] OTHER -> "raised"

\* lines 315-317: where run_valuation_process goes after the DCF request
AfterDcfAssumptions(ret) ==
    CASE ret = "true" -> "dcf_calc"
      [] ret = "false" -> AfterDcfPath(FALSE)
      [] OTHER -> "raised"

GenerateDcfAssumptionsWithLlm(resp) ==
    /\ pc = "dcf_assumptions"
    /\ LET r == GenerateDcf(fve_input_data, base_fcfe_0, dcf_assumptions,
                            dcf_failure_reason, resp)
       IN  /\ dcf_assumptions' = r.a
           /\ dcf_failure_reason' = r.reason
           /\ pc' = AfterDcfAssumptions(r.ret)
           /\ llm_calls' = IF r.called THEN Append(llm_calls, "dcf")
                           ELSE llm_calls
           /\ llm_responses' = IF r.called THEN Append(llm_responses, resp)
                               ELSE llm_responses
           /\ outcome' = IF r.ret = "raise" THEN Raised("TypeError")
                         ELSE outcome
    /\ calls' = Append(calls, "dcf_assumptions")
    /\ UNCHANGED <<stage1_years, llm_handler, instance, other, interleaved, previous_run,
                   fve_input_data, base_fcfe_0, multiples_assumptions,
                   calculated_fve, method_used, methodology_text,
                   multiples_failure_reason, dcf_ok, narrative_prompt>>

----------------------------------------------------------------------------
(* Exact arithmetic on fractions <<n, d>>, d > 0, in lowest terms *)

RECURSIVE GCD(_, _)
GCD(a, b) == IF b = 0 THEN Abs(a) ELSE GCD(b, a % b)

Rat(n, d) ==
    LET k == GCD(n, d)
        sg == IF d < 0 THEN -1 ELSE 1
    IN  <<sg * (n \div k), sg * (d \div k)>>

RatMul(x, y) ==
    LET a == Rat(x[1], y[2])
        b == Rat(y[1], x[2])
    IN  Rat(a[1] * b[1], a[2] * b[2])

RatDiv(x, y) == RatMul(x, Rat(y[2], y[1]))

RatAdd(x, y) ==
    LET k == GCD(x[2], y[2])
        l == (x[2] \div k) * y[2]
    IN  Rat(x[1] * (l \div x[2]) + y[1] * (l \div y[2]), l)

RECURSIVE RatPow(_, _)
RatPow(x, k) == IF k = 0 THEN <<1, 1>> ELSE RatMul(x, RatPow(x, k - 1))

\* round(x * 100) of the fraction x, ties to even: round(x, 2) in hundredths
Round2(x) ==
    LET n == x[1] * 100
        q == n \div x[2]
        r == n - q * x[2]
    IN  IF 2 * r > x[2] THEN q + 1
        ELSE IF 2 * r < x[2] THEN q
        ELSE IF q % 2 = 0 THEN q ELSE q + 1

\* format(x, ".2f") of a negative fraction x
Fmt2Neg(x) == IF Round2(x) = 0 THEN "-0.00" ELSE Fmt2(Round2(x))

\* format(x, ".6f") of the number h/10000
Fmt6(h) ==
    (IF h < 0 THEN "-" ELSE "") \o ToString(Abs(h) \div 10000) \o "."
    \o (IF Abs(h) % 10000 < 1000 THEN "0" ELSE "")
    \o (IF Abs(h) % 10000 < 100 THEN "0" ELSE "")
    \o (IF Abs(h) % 10000 < 10 THEN "0" ELSE "")
    \o ToString(Abs(h) % 10000) \o "00"

----------------------------------------------------------------------------
(* _perform_dcf_calculation *)

\* x / 100.0 of a percentage kept in hundredths of a percent
Decimal(pct) == Rat(pct, 10000)

RECURSIVE GrownCashFlow(_, _, _)
\* cf after the first i iterations of "cf *= (1 + s1g_d[i])"
GrownCashFlow(base, s1g_d, i) ==
    IF i = 0 THEN Rat(base, 1)
    ELSE RatMul(GrownCashFlow(base, s1g_d, i - 1),
                RatAdd(<<1, 1>>, s1g_d[i]))

RECURSIVE SumPvStage1(_, _, _, _)
\* sum(pv_s1fcfes) over the first i years: cf / (1 + ke_d) ** year
SumPvStage1(base, s1g_d, ke_d, i) ==
    IF i = 0 THEN <<0, 1>>
    ELSE RatAdd(SumPvStage1(base, s1g_d, ke_d, i - 1),
                RatDiv(GrownCashFlow(base, s1g_d, i),
                       RatPow(RatAdd(<<1, 1>>, ke_d), i)))

\* the terminal value is taken on the last cash flow without its growth
TerminalValue_Ungrown(cf, g_d, tv_denom) == RatDiv(cf, tv_denom)

\* tv = (fcf_tv_base * (1 + g_d)) / tv_denom
TerminalValue(cf, g_d, tv_denom) ==
    RatDiv(RatMul(cf, RatAdd(<<1, 1>>, g_d)), tv_denom)

\* tev / so, for the configured horizon
FvePerShare(base, s1, g, ke, so) ==
    LET ke_d == Decimal(ke)
        g_d == Decimal(g)
        s1g_d == [i \in 1..Len(s1) |-> Decimal(s1[i])]
        cf == GrownCashFlow(base, s1g_d, stage1_years)
        tv == TerminalValue(cf, g_d, RatAdd(ke_d, Rat(-g, 10000)))
        pv_tv == RatDiv(tv, RatPow(RatAdd(<<1, 1>>, ke_d), stage1_years))
        tev == RatAdd(SumPvStage1(base, s1g_d, ke_d, stage1_years), pv_tv)
    IN  RatDiv(tev, Rat(so, 1))

\* a negative value per share is let through
NegativePerShare_Never(fve_ps) == FALSE

\* line 182: the value per share is below zero
NegativePerShare(fve_ps) == fve_ps[1] < 0

DcfFail(reason) == [ok |-> FALSE, reason |-> reason, fve |-> None]

\* the calculation discounts at the CAPM reference rfr + beta x erp
KeForCalculation_Capm(a) ==
    IF IsNone(a.cost_of_equity_ke_pct) \/ IsNone(a.beta_used) THEN None
    ELSE Num(a.rfr_pct_used + (a.beta_used.v * a.erp_pct_used) \div 100)

\* lines 120 and 126: the cost of equity the calculation discounts at
KeForCalculation(a) == a.cost_of_equity_ke_pct

\* the whole method: [ok, reason, fve]
PerformDcf(ctx, base, a) ==
    LET ke == KeForCalculation(a)
        g == a.perpetual_growth_rate_g_pct
        s1 == a.fcfe_growth_stage1_pct
        so_raw == ctx.sharesOutstanding
    IN  IF IsNone(base)
        THEN DcfFail("Base FCFE_0 not available for DCF calculation.")
        ELSE IF IsNone(ke) \/ IsNone(g) \/ s1 = <<>>
        THEN DcfFail("Missing essential DCF assumptions (Ke, g, Stage 1 growth).")
        ELSE IF Len(s1) # stage1_years
        THEN DcfFail("Stage 1 growth rates list length (" \o ToString(Len(s1))
                     \o ") mismatches configured stage1_years ("
                     \o ToString(stage1_years) \o ").")
        ELSE IF g.v >= ke.v - min_ke_g_spread_decimal
        THEN DcfFail("Perpetual growth (" \o Fmt2(g.v) \o "%) not less than Ke ("
                     \o Fmt2(ke.v) \o "%) by min spread ("
                     \o Fmt2(min_ke_g_spread_decimal) \o "%).")
        ELSE IF ~FloatOk(so_raw)
        THEN DcfFail("Shares outstanding ('" \o PyStr(so_raw)
                     \o "') is invalid or not positive: " \o FloatError(so_raw))
        ELSE IF so_raw.v <= 0
        THEN DcfFail("Shares outstanding ('" \o PyStr(so_raw)
                     \o "') is invalid or not positive: "
                     \o "Shares outstanding must be positive and greater than zero.")
        ELSE IF (ke.v - g.v) * 100000 <= 1
        THEN DcfFail("Terminal value denominator (Ke - g = "
                     \o Fmt6(ke.v - g.v) \o ") is not sufficiently positive.")
        ELSE LET fve_ps == FvePerShare(base.v, s1, g.v, ke.v, so_raw.v)
             IN  IF NegativePerShare(fve_ps)
                 THEN DcfFail("Calculated FVE per share is negative ($"
                              \o Fmt2Neg(fve_ps) \o ").")
                 ELSE [ok |-> TRUE, reason |-> NULL,
                       fve |-> Num(Round2(fve_ps))]

PerformDcfCalculation ==
    /\ pc = "dcf_calc"
    /\ LET r == PerformDcf(fve_input_data, base_fcfe_0, dcf_assumptions)
       IN  /\ calculated_fve' = IF r.ok THEN r.fve ELSE calculated_fve
           /\ dcf_failure_reason' =
                  IF r.ok THEN dcf_failure_reason ELSE r.reason
           /\ method_used' = IF r.ok THEN "Two-Stage FCFE DCF" ELSE method_used
           /\ dcf_ok' = r.ok
           /\ pc' = AfterDcfPath(r.ok)
    /\ calls' = Append(calls, "dcf_calc")
    /\ UNCHANGED <<stage1_years, llm_handler, instance, other, interleaved, llm_responses, previous_run,
                   fve_input_data, base_fcfe_0, dcf_assumptions,
                   multiples_assumptions, methodology_text,
                   multiples_failure_reason, llm_calls, narrative_prompt,
                   outcome>>

----------------------------------------------------------------------------
(* _generate_multiples_assumptions_with_llm *)

\* the values of MultiplesAssumptionKeys, in the order of dir()
MultiplesAssumptionKeys ==
    <<"justification_eps_selection", "justification_pe_multiple",
      "selected_eps_type", "selected_eps_value", "selected_pe_multiple_type",
      "selected_pe_multiple_value">>

MultKeySet == {MultiplesAssumptionKeys[i] : i \in 1..Len(MultiplesAssumptionKeys)}

\* a JSON object answering the multiples request
MultJson(keys, extra, pe, eps) ==
    [kind |-> "json", keys |-> keys, extra |-> extra, pe |-> pe, eps |-> eps]

\* line 190: no P/E at all, or no EPS at all
\* the request is made whatever the context holds
InsufficientMultiplesData_Never(ctx) == FALSE

InsufficientMultiplesData(ctx) ==
    \/ (IsNone(ctx.trailingPE) /\ IsNone(ctx.forwardPE))
    \/ (IsNone(ctx.trailingEps) /\ IsNone(ctx.forwardEps))

\* lines 193-196: format(x, ".2f") of a present value that is a string raises
MetricsFormatRaises(ctx) ==
    \E x \in {ctx.trailingPE, ctx.forwardPE, ctx.trailingEps, ctx.forwardEps} :
        x.t = "str"

\* lines 215-218 and 220-223: the types and justifications are stored
StoreMultiplesTexts(m) ==
    [m EXCEPT !.selected_pe_multiple_type = "Trailing P/E",
              !.justification_pe_multiple = "pe view",
              !.selected_eps_type = "Trailing EPS",
              !.justification_eps_selection = "eps view"]

MultFail(reason, m, called) ==
    [ret |-> "false", reason |-> reason, m |-> m, called |-> called,
     exc |-> NULL]

MultRaise(exc, reason, m, called) ==
    [ret |-> "raise", reason |-> reason, m |-> m, called |-> called,
     exc |-> exc]

\* lines 209-226: the selections of a response that has every required key
StoreSelections(m, resp) ==
    LET m1 == [m EXCEPT !.selected_pe_multiple_value = resp.pe]
        m2 == [m1 EXCEPT !.selected_eps_value = resp.eps]
    IN  IF ~IsNone(resp.pe) /\ ~FloatOk(resp.pe)
        THEN MultFail("Error parsing numeric values (P/E or EPS) from LLM Multiples assumptions: "
                      \o FloatError(resp.pe), m, TRUE)
        ELSE IF ~IsNone(resp.eps) /\ ~FloatOk(resp.eps)
        THEN MultFail("Error parsing numeric values (P/E or EPS) from LLM Multiples assumptions: "
                      \o FloatError(resp.eps), m1, TRUE)
        ELSE IF IsNone(resp.pe) \/ IsNone(resp.eps)
        THEN MultFail("LLM indicated that P/E value or EPS value for multiples valuation is not determinable or feasible.",
                      StoreMultiplesTexts(m2), TRUE)
        ELSE [ret |-> "true", reason |-> NULL, m |-> StoreMultiplesTexts(m2),
              called |-> TRUE, exc |-> NULL]

\* the whole method: [ret, reason, m, called, exc]
GenerateMultiples(ctx, m, reason, resp) ==
    IF InsufficientMultiplesData(ctx)
    THEN MultFail("Insufficient P/E or EPS data available to generate multiples assumptions.",
                  m, FALSE)
    ELSE IF MetricsFormatRaises(ctx)
    THEN MultRaise("ValueError", reason, m, FALSE)
    ELSE IF SummarizeRaises(ctx.historical_financials)
    THEN MultRaise("TypeError", reason, m, FALSE)
    ELSE IF resp.kind = "raise"
    THEN MultFail("LLM call failed (Multiples assumptions): " \o LlmErrorMessage,
                  m, TRUE)
    ELSE IF resp.kind = "empty"
    THEN MultFail("LLM returned empty response (Multiples assumptions).", m, TRUE)
    ELSE IF NotParsed(resp)
    THEN MultFail(IF reason # NULL THEN reason
                  ELSE "Failed to parse JSON from LLM response (Multiples assumptions).",
                  m, TRUE)
    ELSE IF ~ExtractJson(resp).container
    THEN MultRaise("TypeError", reason, m, TRUE)
    ELSE IF MissingKeys(MultiplesAssumptionKeys, resp.keys, 1) # <<>>
    THEN MultFail("LLM Multiples response missing required keys: "
                  \o Join(", ", MissingKeys(MultiplesAssumptionKeys, resp.keys, 1)),
                  m, TRUE)
    ELSE StoreSelections(m, resp)

\* the answers the capability may give to the multiples request
MultResponses ==
    {LlmRaise, LlmEmpty, LlmText, LlmScalar}
    \cup {MultJson(k, x, Num(2000), Num(342)) :
            k \in {MultKeySet \ {"selected_eps_value"}, {}}, x \in BOOLEAN}
    \cup {MultJson(MultKeySet, FALSE, pe, Num(342)) :
            pe \in {Num(2000), Num(0), Num(-1000), None, Str}}
    \cup {MultJson(MultKeySet, FALSE, Num(1000), eps) :
            eps \in {Num(-150), Num(0), None, Str}}
    \cup {MultJson(MultKeySet, FALSE, Num(-1000), Num(-150)),
          MultJson(MultKeySet, FALSE, Num(1210), Num(333)),
          MultJson(MultKeySet, FALSE, Str, None),
          MultJson(MultKeySet, FALSE, None, Str),
          MultJson(MultKeySet, FALSE, None, None)}

\* lines 318-321: the calculation runs only with both selections stored
\* the calculation is entered whatever the generator returned
AfterMultiplesAssumptions_Always(ret, m) ==
    IF ret = "raise" THEN "raised" ELSE "multiples_calc"

AfterMultiplesAssumptions(ret, m) ==
    CASE ret = "raise" -> "raised"
      [] ret = "true" /\ ~IsNone(m.selected_pe_multiple_value)
                      /\ ~IsNone(m.selected_eps_value) -> "multiples_calc"
      [] OTHER -> "final"

GenerateMultiplesAssumptionsWithLlm(resp) ==
    /\ pc = "multiples"
    /\ LET r == GenerateMultiples(fve_input_data, multiples_assumptions,
                                  multiples_failure_reason, resp)
       IN  /\ multiples_assumptions' = r.m
           /\ multiples_failure_reason' = r.reason
           /\ pc' = AfterMultiplesAssumptions(r.ret, r.m)
           /\ llm_calls' = IF r.called THEN Append(llm_calls, "multiples")
                           ELSE llm_calls
           /\ llm_responses' = IF r.called THEN Append(llm_responses, resp)
                               ELSE llm_responses
           /\ outcome' = IF r.ret = "raise" THEN Raised(r.exc) ELSE outcome
    /\ calls' = Append(calls, "multiples_assumptions")
    /\ UNCHANGED <<stage1_years, llm_handler, instance, other, interleaved, previous_run,
                   fve_input_data, base_fcfe_0, dcf_assumptions,
                   calculated_fve, method_used, methodology_text,
                   dcf_failure_reason, dcf_ok, narrative_prompt>>

----------------------------------------------------------------------------
(* _perform_multiples_calculation *)

CalcFail(reason) == [ok |-> FALSE, reason |-> reason, fve |-> None]

\* the product alone is checked, not the multiple
PerformMultiples_ProductOnly(m) ==
    LET pe_v == m.selected_pe_multiple_value
        eps_v == m.selected_eps_value
        fve == Rat(pe_v.v * eps_v.v, 10000)
    IN  IF IsNone(pe_v) \/ IsNone(eps_v)
        THEN CalcFail("Selected P/E multiple value is missing from assumptions.")
        ELSE IF fve[1] <= 0
        THEN CalcFail("Calculated FVE from multiples ($"
                      \o (IF fve[1] = 0 THEN "0.00" ELSE Fmt2Neg(fve))
                      \o ") is not positive.")
        ELSE [ok |-> TRUE, reason |-> NULL, fve |-> Num(Round2(fve))]

\* the whole method: [ok, reason, fve]
PerformMultiples(m) ==
    LET pe_v == m.selected_pe_multiple_value
        eps_v == m.selected_eps_value
        fve == Rat(pe_v.v * eps_v.v, 10000)
    IN  IF IsNone(pe_v)
        THEN CalcFail("Selected P/E multiple value is missing from assumptions.")
        ELSE IF IsNone(eps_v)
        THEN CalcFail("Selected EPS value is missing from assumptions.")
        ELSE IF pe_v.v <= 0
        THEN CalcFail("Selected P/E multiple (" \o Fmt2(pe_v.v)
                      \o ") must be positive for valuation.")
        ELSE IF fve[1] <= 0
        THEN CalcFail("Calculated FVE from multiples ($"
                      \o (IF fve[1] = 0 THEN "0.00" ELSE Fmt2Neg(fve))
                      \o ") is not positive.")
        ELSE [ok |-> TRUE, reason |-> NULL, fve |-> Num(Round2(fve))]

PerformMultiplesCalculation ==
    /\ pc = "multiples_calc"
    /\ LET r == PerformMultiples(multiples_assumptions)
       IN  /\ calculated_fve' = IF r.ok THEN r.fve ELSE calculated_fve
           /\ multiples_failure_reason' =
                  IF r.ok THEN multiples_failure_reason ELSE r.reason
           /\ method_used' = IF r.ok THEN "P/E Multiples-Based" ELSE method_used
    /\ pc' = "final"
    /\ calls' = Append(calls, "multiples_calc")
    /\ UNCHANGED <<stage1_years, llm_handler, instance, other, interleaved, llm_responses, previous_run,
                   fve_input_data, base_fcfe_0, dcf_assumptions,
                   multiples_assumptions, methodology_text,
                   dcf_failure_reason, dcf_ok, llm_calls, narrative_prompt,
                   outcome>>

----------------------------------------------------------------------------
(* _generate_final_methodology_text_with_llm *)

\* a string field is None or ""
Empty(x) == x = NULL \/ x = ""

\* format(x, ".1f") of the number h/100
Fmt1(h) ==
    LET t == Round2(Rat(Abs(h), 1000))
    IN  (IF h < 0 THEN "-" ELSE "") \o ToString(t \div 10) \o "."
        \o ToString(t % 10)

\* format(x, ",.2f") of a whole number below one thousand in magnitude
FmtMoney(n) == ToString(n) \o ".00"

\* str(x) of a stored text that may be None
TextOrNone(x) == IF x = NULL THEN "None" ELSE x

format_failure_reason(reason_str, method_name) ==
    IF Empty(reason_str)
    THEN method_name \o " was not completed or no specific failure reason noted."
    ELSE IF Contains(reason_str, "NA.") /\ Contains(reason_str, "Shares")
            /\ Contains(reason_str, "Beta")
    THEN method_name \o " valuation could not be performed due to missing Beta and Shares Outstanding data."
    ELSE IF Contains(reason_str, "Beta NA.")
    THEN method_name \o " valuation could not be performed due to missing Beta data."
    ELSE IF Contains(reason_str, "Shares NA.")
    THEN method_name \o " valuation could not be performed due to missing Shares Outstanding data."
    ELSE method_name \o " attempt failed: " \o reason_str

PromptHeader ==
    <<"You are an AI Financial Analyst. Your task is to generate a concise, professional 'VALUATION_METHODOLOGY:' paragraph for a stock report.",
      "Instructions for Output:",
      "1. Start the entire response EXACTLY with 'VALUATION_METHODOLOGY:'.",
      "2. Present as a well-written, concise paragraph(s).",
      "3. Be professional, clear, and suitable for inclusion in a financial report.",
      "4. No conversational elements or self-references.",
      "5. Clearly state the FVE and the primary method used.",
      "6. If fallback used, state primary method's failure reason clearly.",
      "7. For successful method, summarize key assumptions, justifications, and core calculation steps. Avoid excessive repetition in justifications.">>

\* lines 256: the company context of the prompt
PromptContext(ctx, fve, method) ==
    <<"\nCompany Context for Methodology:",
      "- Company: " \o CompanyDisplay(ctx),
      "- Final Calculated FVE: "
          \o (IF IsNone(fve) THEN "N/A (Valuation Unsuccessful)"
              ELSE "$" \o Fmt2(fve.v)),
      "- Valuation Method Used: " \o method>>

\* lines 266-276: the DCF details of the prompt
PromptDcf(base, a, method, dcf_reason) ==
    IF method = "Two-Stage FCFE DCF" \/ ~Empty(dcf_reason)
    THEN <<"\nTwo-Stage FCFE DCF Approach Details:",
           "- Base FCFE (FCFE_0): "
               \o (IF IsNone(base) THEN "N/A" ELSE "$" \o FmtMoney(base.v)),
           "- Cost of Equity (Ke): "
               \o (IF IsNone(a.cost_of_equity_ke_pct) THEN "N/A"
                   ELSE Fmt2(a.cost_of_equity_ke_pct.v) \o "%")
               \o " (Beta: "
               \o (IF IsNone(a.beta_used) THEN "N/A"
                   ELSE Fmt2(a.beta_used.v) \o "0")
               \o ", RFR: " \o Fmt1(a.rfr_pct_used) \o "%, ERP: "
               \o Fmt1(a.erp_pct_used) \o "%)",
           "  - Ke Justification: " \o a.justification_ke,
           "- Stage 1 FCFE Growth Rates (" \o ToString(stage1_years)
               \o " yrs): ["
               \o (IF a.fcfe_growth_stage1_pct = <<>> THEN "N/A"
                   ELSE Join(", ", [i \in 1..Len(a.fcfe_growth_stage1_pct) |->
                                      Fmt1(a.fcfe_growth_stage1_pct[i]) \o "%"]))
               \o "]",
           "  - Stage 1 Growth Justification: "
               \o a.justification_fcfe_growth_stage1,
           "- Perpetual Growth Rate (g): "
               \o (IF IsNone(a.perpetual_growth_rate_g_pct) THEN "N/A"
                   ELSE Fmt2(a.perpetual_growth_rate_g_pct.v) \o "%"),
           "  - Perpetual Growth Justification: "
               \o a.justification_perpetual_growth_rate_g>>
         \o (IF method = "Two-Stage FCFE DCF"
             THEN <<"- DCF Calculation Summary: FCFEs were projected for Stage 1, a terminal value was calculated using the Gordon Growth Model, all cash flows were discounted to present value and summed for total equity value, then divided by shares outstanding.">>
             ELSE <<"- " \o format_failure_reason(dcf_reason, "DCF")>>)
    ELSE <<>>

\* lines 278-285: the multiples details of the prompt
PromptMultiples(m, method, dcf_reason, mult_reason) ==
    IF method = "P/E Multiples-Based"
       \/ (~Empty(dcf_reason) /\ mult_reason # NULL)
    THEN <<"\nP/E Multiples-Based Approach Details:",
           "- Selected P/E Multiple: "
               \o (IF IsNone(m.selected_pe_multiple_value) THEN "N/A"
                   ELSE Fmt1(m.selected_pe_multiple_value.v) \o "x")
               \o " (" \o TextOrNone(m.selected_pe_multiple_type) \o ")",
           "  - P/E Justification: " \o m.justification_pe_multiple,
           "- Selected EPS: "
               \o (IF IsNone(m.selected_eps_value) THEN "N/A"
                   ELSE "$" \o Fmt2(m.selected_eps_value.v))
               \o " (" \o TextOrNone(m.selected_eps_type) \o ")",
           "  - EPS Justification: " \o m.justification_eps_selection>>
         \o (IF method = "P/E Multiples-Based"
             THEN <<"- Multiples Calculation Summary: FVE was calculated as Selected P/E Multiple multiplied by Selected EPS.">>
             ELSE IF ~Empty(mult_reason)
             THEN <<"- " \o format_failure_reason(mult_reason, "Multiples")>>
             ELSE <<>>)
    ELSE <<>>

\* prompt_sections
PromptSections(ctx, base, a, m, fve, method, dcf_reason, mult_reason) ==
    PromptHeader \o PromptContext(ctx, fve, method)
    \o PromptDcf(base, a, method, dcf_reason)
    \o PromptMultiples(m, method, dcf_reason, mult_reason)

MethodologyPrefix == "VALUATION_METHODOLOGY:"

\* the text an answer of the capability leaves in self.methodology_text
NarrativeText(answer) ==
    IF Strip(answer) = ""
    THEN MethodologyPrefix \o "\nLLM explanation for methodology was empty."
    ELSE IF UpperStartsWith(Strip(answer), MethodologyPrefix)
    THEN Strip(answer)
    ELSE MethodologyPrefix \o "\n" \o Strip(answer)

\* the answers the capability may give to the narrative request: it raises,
\* returns None, or returns a text (which may repeat the data of the prompt)
NarrativeResponses ==
    {LlmRaise, LlmEmpty}
    \cup {[kind |-> "answer", text |-> t] :
            t \in {"", "   ", "Fair value explained.",
                   "  valuation_methodology: Fair value explained. \n"}}
    \cup {[kind |-> "repeat"]}

\* the text of an answer, given the sections of the prompt
AnswerText(resp, sections) ==
    IF resp.kind = "repeat"
    THEN Join("\n", SubSeq(sections, Len(PromptHeader) + 1, Len(sections)))
    ELSE resp.text

\* the whole method: [ret, text, called, prompt]
GenerateFinalText(ctx, base, a, m, fve, method, text, dcf_r, mult_r, resp) ==
    LET sections == PromptSections(ctx, base, a, m, fve, method, dcf_r,
                                   mult_r)
    IN  IF Empty(method) \/ method = "Valuation Failed"
        THEN [ret |-> FALSE, called |-> FALSE, prompt |-> NULL,
              text |-> IF Empty(text) \/ text = ResetMethodologyText
                       THEN MethodologyPrefix
                            \o "\nValuation process failed or was not successfully completed. Method indicated: "
                            \o (IF Empty(method) THEN "Unknown" ELSE method)
                            \o "."
                       ELSE text]
        ELSE IF resp.kind = "raise"
        THEN [ret |-> FALSE, called |-> TRUE,
              prompt |-> Join("\n", sections),
              text |-> MethodologyPrefix
                       \o "\nError generating methodology explanation: "
                       \o LlmErrorMessage]
        ELSE IF resp.kind = "empty"
        THEN [ret |-> FALSE, called |-> TRUE,
              prompt |-> Join("\n", sections),
              text |-> MethodologyPrefix
                       \o "\nLLM explanation for methodology was empty."]
        ELSE [ret |-> Strip(AnswerText(resp, sections)) # "",
              called |-> TRUE, prompt |-> Join("\n", sections),
              text |-> NarrativeText(AnswerText(resp, sections))]

\* a failed narrative leaves no text
SuccessText_Blank(ctx, fve, method, ret, text) == IF ~ret THEN "" ELSE text

\* lines 324-325: the text when the narrative failed and left none
SuccessText(ctx, fve, method, ret, text) ==
    IF ~ret /\ (Empty(text) \/ text = ResetMethodologyText)
    THEN MethodologyPrefix \o "\nThe FVE for " \o CompanyDisplay(ctx)
         \o " was calculated as $" \o Fmt2(fve.v) \o " using the " \o method
         \o " method. A detailed LLM-generated explanation for the methodology was not available."
    ELSE text

\* line 323, then lines 324-325 and the return of line 343
GenerateFinalMethodologyTextWithLlm(resp) ==
    /\ pc = "final"
    /\ ~IsNone(calculated_fve)
    /\ LET r == GenerateFinalText(fve_input_data, base_fcfe_0,
                                  dcf_assumptions, multiples_assumptions,
                                  calculated_fve, method_used,
                                  methodology_text, dcf_failure_reason,
                                  multiples_failure_reason, resp)
           text == SuccessText(fve_input_data, calculated_fve, method_used,
                               r.ret, r.text)
       IN  /\ methodology_text' = text
           /\ narrative_prompt' = r.prompt
           /\ llm_calls' = IF r.called THEN Append(llm_calls, "narrative")
                           ELSE llm_calls
           /\ llm_responses' = IF r.called THEN Append(llm_responses, resp)
                               ELSE llm_responses
           /\ outcome' = Returned(calculated_fve, text)
    /\ pc' = "returned"
    /\ calls' = Append(calls, "narrative")
    /\ UNCHANGED <<stage1_years, llm_handler, instance, other, interleaved, previous_run,
                   fve_input_data, base_fcfe_0, dcf_assumptions,
                   multiples_assumptions, calculated_fve, method_used,
                   dcf_failure_reason, multiples_failure_reason, dcf_ok>>

----------------------------------------------------------------------------
(* run_valuation_process, lines 326-338: no method gave a fair value *)

\* the reasons are left out of the message
FailureText_Unspecified(ctx, dcf_reason, mult_reason) ==
    MethodologyPrefix \o "\nValuation for " \o CompanyDisplay(ctx)
    \o " could not be completed due to unspecified reasons."

FailureText(ctx, dcf_reason, mult_reason) ==
    LET dcf_reason_formatted ==
            IF ~Empty(dcf_reason)
            THEN "DCF valuation could not be performed due to: "
                 \o dcf_reason \o "."
            ELSE "DCF valuation was not successfully completed."
        multiples_reason_formatted ==
            IF ~Empty(mult_reason)
            THEN "Multiples valuation could not be performed due to: "
                 \o mult_reason \o "."
            ELSE "Multiples valuation was not successfully completed or attempted."
        start == MethodologyPrefix \o "\nValuation for " \o CompanyDisplay(ctx)
    IN  IF ~Empty(dcf_reason) /\ ~Empty(mult_reason)
        THEN start \o " failed. " \o dcf_reason_formatted \o " "
             \o multiples_reason_formatted
        ELSE IF ~Empty(dcf_reason)
        THEN start \o " failed. " \o dcf_reason_formatted
        ELSE IF ~Empty(mult_reason)
        THEN start \o " failed. " \o multiples_reason_formatted
        ELSE start \o " could not be completed due to unspecified reasons."

\* line 326, lines 327-338 and the return of line 343
ComposeFailureText ==
    /\ pc = "final"
    /\ IsNone(calculated_fve)
    /\ method_used' = "Valuation Failed"
    /\ methodology_text' = FailureText(fve_input_data, dcf_failure_reason,
                                       multiples_failure_reason)
    /\ outcome' = Returned(calculated_fve,
                           FailureText(fve_input_data, dcf_failure_reason,
                                       multiples_failure_reason))
    /\ pc' = "returned"
    /\ calls' = Append(calls, "failure_text")
    /\ UNCHANGED <<stage1_years, llm_handler, instance, other, interleaved, llm_responses, previous_run,
                   fve_input_data, base_fcfe_0, dcf_assumptions,
                   multiples_assumptions, calculated_fve, dcf_failure_reason,
                   multiples_failure_reason, dcf_ok, llm_calls,
                   narrative_prompt>>

----------------------------------------------------------------------------
(* llm_handler.py: LLMHandler, the capability handed to the agent *)

\* the handlers a program constructs
MaxHandlers == 2

Handlers == 1..MaxHandlers

\* no handler constructed yet: the class is not configured
NoHandler ==
    /\ is_configured = FALSE
    /\ model = [h \in Handlers |-> "unbuilt"]
    /\ generated = [handler |-> 0,
                    response |-> [what |-> "none", text |-> NULL],
                    kind |-> "none", text |-> NULL]

\* lines 36-37 and 51-66: the class after the constructor's configuration
\* step; genai.configure may raise, which is caught
ConfiguredAfter(configured, key, configure_ok) ==
    IF configured THEN TRUE ELSE key /\ configure_ok

\* lines 41-49: self.model after the constructor; GenerativeModel may
\* raise, which is caught
ModelAfter(configured, model_ok) ==
    IF configured /\ model_ok THEN "model" ELSE "none"

\* lines 11-49: LLMHandler(...), with or without a key to be found
NewLLMHandler(h, key, configure_ok, model_ok) ==
    /\ model[h] = "unbuilt"
    /\ \A g \in Handlers : g < h => model[g] # "unbuilt"
    /\ is_configured' = ConfiguredAfter(is_configured, key, configure_ok)
    /\ model' = [model EXCEPT ![h] = ModelAfter(is_configured', model_ok)]
    /\ UNCHANGED generated
    /\ UNCHANGED <<fve_input_data, base_fcfe_0, dcf_assumptions,
                   multiples_assumptions, calculated_fve, method_used,
                   methodology_text, dcf_failure_reason,
                   multiples_failure_reason, dcf_ok, pc, calls, llm_calls,
                   narrative_prompt, llm_responses, previous_run, instance,
                   other, interleaved, outcome, stage1_years>>

\* what self.model.generate_content(prompt) may do:
\*   raises - the call raises; falsy - a response that is falsy;
\*   text - a response whose text is the given one; text_none - whose text
\*   is None; text_raises - whose text property raises (no candidate);
\*   blocked - no text, a block reason; unblocked - no text and no block
\*   reason; no_feedback - no text and prompt_feedback None; bare - neither
\*   attribute
GenerateContentOutcomes ==
    {[what |-> "raises", text |-> NULL], [what |-> "falsy", text |-> NULL],
     [what |-> "text", text |-> "Answer."], [what |-> "text", text |-> " "],
     [what |-> "text", text |-> ""], [what |-> "text_none", text |-> NULL],
     [what |-> "text_raises", text |-> NULL],
     [what |-> "blocked", text |-> NULL],
     [what |-> "unblocked", text |-> NULL],
     [what |-> "no_feedback", text |-> NULL], [what |-> "bare", text |-> NULL]}

HandlerReturn(text) == [kind |-> "returned", text |-> text]

\* the exception leaves generate_text
HandlerCaught_Propagates == [kind |-> "raised", text |-> NULL]

\* line 77: except Exception ... return None
HandlerCaught == HandlerReturn(NULL)

\* lines 68-77: generate_text; NULL stands for None
GenerateText(configured, m, resp) ==
    IF ~configured THEN HandlerReturn(NULL)
    ELSE IF m # "model" THEN HandlerReturn(NULL)
    ELSE IF resp.what \in {"raises", "text_raises", "no_feedback"}
    THEN HandlerCaught
    ELSE IF resp.what = "text" /\ resp.text # ""
    THEN HandlerReturn(resp.text)
    ELSE HandlerReturn(NULL)

\* a call of generate_text on a constructed handler
GenerateTextCall(h, resp) ==
    /\ model[h] # "unbuilt"
    /\ LET r == GenerateText(is_configured, model[h], resp)
       IN  generated' = [handler |-> h, response |-> resp,
                         kind |-> r.kind, text |-> r.text]
    /\ UNCHANGED <<is_configured, model>>
    /\ UNCHANGED <<fve_input_data, base_fcfe_0, dcf_assumptions,
                   multiples_assumptions, calculated_fve, method_used,
                   methodology_text, dcf_failure_reason,
                   multiples_failure_reason, dcf_ok, pc, calls, llm_calls,
                   narrative_prompt, llm_responses, previous_run, instance,
                   other, interleaved, outcome, stage1_years>>

LlmHandlerNext ==
    \/ \E h \in Handlers, key, configure_ok, model_ok \in BOOLEAN :
           NewLLMHandler(h, key, configure_ok, model_ok)
    \/ \E h \in Handlers, resp \in GenerateContentOutcomes :
           GenerateTextCall(h, resp)

-----------------------------------------------------------------------------
\* a newly constructed instance: __init__ ends with _reset_internal_state
Constructed ==
    /\ fve_input_data = NoContext
    /\ base_fcfe_0 = None
    /\ dcf_assumptions = ResetDcfAssumptions
    /\ multiples_assumptions = ResetMultiplesAssumptions
    /\ calculated_fve = None
    /\ method_used = NULL
    /\ methodology_text = ResetMethodologyText
    /\ dcf_failure_reason = NULL
    /\ multiples_failure_reason = NULL
    /\ dcf_ok = FALSE
    /\ pc = "idle"
    /\ calls = <<>>
    /\ llm_calls = <<>>
    /\ narrative_prompt = NULL
    /\ llm_responses = <<>>
    /\ previous_run = "none"
    /\ outcome = NoOutcome

\* the fields of a newly constructed instance, as a record
ConstructedInstance(id) ==
    [id |-> id, fve_input_data |-> NoContext, base_fcfe_0 |-> None,
     dcf_assumptions |-> [ResetDcfAssumptions EXCEPT
                              !.rfr_pct_used = RfrOf(id),
                              !.erp_pct_used = ErpOf(id)],
     multiples_assumptions |-> ResetMultiplesAssumptions,
     calculated_fve |-> None, method_used |-> NULL,
     methodology_text |-> ResetMethodologyText, dcf_failure_reason |-> NULL,
     multiples_failure_reason |-> NULL, dcf_ok |-> FALSE, pc |-> "idle",
     calls |-> <<>>, llm_calls |-> <<>>, narrative_prompt |-> NULL,
     llm_responses |-> <<>>, previous_run |-> "none", outcome |-> NoOutcome]

\* there is no other instance
NoInstance == [ConstructedInstance(0) EXCEPT !.pc = "absent"]

\* one instance
Init ==
    /\ instance = 1
    /\ stage1_years = Stage1Years
    /\ Constructed
    /\ other = NoInstance
    /\ interleaved = FALSE
    /\ NoHandler

Next ==
    \/ StartRun
    \/ CalculateBaseFcfeZero
    \/ \E resp \in DcfResponses : GenerateDcfAssumptionsWithLlm(resp)
    \/ PerformDcfCalculation
    \/ \E resp \in MultResponses : GenerateMultiplesAssumptionsWithLlm(resp)
    \/ PerformMultiplesCalculation
    \/ \E resp \in NarrativeResponses : GenerateFinalMethodologyTextWithLlm(resp)
    \/ ComposeFailureText

Spec == Init /\ [][Next]_vars

----------------------------------------------------------------------------
(* Two FVEAgent instances, each running one valuation, their steps         *)
(* interleaved: the variables hold the instance whose step comes next.     *)

\* the contexts of the two runs
TwoContexts ==
    [companyName : {"Acme"}, ticker : {"ACM"},
     beta : {None, Num(80), Num(120)}, sharesOutstanding : {Num(4)},
     trailingPE : {None, Num(1500)}, forwardPE : {None},
     trailingEps : {Num(300)}, forwardEps : {None},
     historical_financials : {OneYear(Num(100), Num(-30), Num(10), Num(5))}]

TwoDcfResponses ==
    {LlmRaise, LlmScalar,
     DcfJson(DcfKeySet, FALSE, AList(GoodS1), Num(200), Num(1000)),
     DcfJson(DcfKeySet, FALSE, AList(GoodS1), Num(950), Num(1000))}

TwoMultResponses ==
    {LlmEmpty, LlmText,
     MultJson(MultKeySet, FALSE, Num(2000), Num(342)),
     MultJson(MultKeySet, FALSE, Num(1000), Num(-150))}

TwoNarrativeResponses ==
    {LlmRaise, [kind |-> "answer", text |-> "Fair value explained."]}

\* the attributes of the instance in the variables (self.*)
Suspended ==
    [id |-> instance,
     fve_input_data |-> fve_input_data,
     base_fcfe_0 |-> base_fcfe_0,
     dcf_assumptions |-> dcf_assumptions,
     multiples_assumptions |-> multiples_assumptions,
     calculated_fve |-> calculated_fve,
     method_used |-> method_used,
     methodology_text |-> methodology_text,
     dcf_failure_reason |-> dcf_failure_reason,
     multiples_failure_reason |-> multiples_failure_reason,
     dcf_ok |-> dcf_ok,
     pc |-> pc,
     calls |-> calls,
     llm_calls |-> llm_calls,
     narrative_prompt |-> narrative_prompt,
     llm_responses |-> llm_responses,
     previous_run |-> previous_run,
     outcome |-> outcome]

\* the attributes of a suspended instance are its own
Resumed_SharedReasons(o) ==
    [o EXCEPT !.dcf_failure_reason = dcf_failure_reason,
              !.multiples_failure_reason = multiples_failure_reason]

\* the attributes an instance finds when its next step comes: those it left
Resumed(o) == o

\* a run is under way at position p
UnderWay(p) == p \notin {"absent", "idle", "returned", "raised"}

\* the next step is the other instance's
Switch ==
    /\ other.pc # "absent"
    /\ LET r == Resumed(other)
       IN
           /\ fve_input_data' = r.fve_input_data
           /\ base_fcfe_0' = r.base_fcfe_0
           /\ dcf_assumptions' = r.dcf_assumptions
           /\ multiples_assumptions' = r.multiples_assumptions
           /\ calculated_fve' = r.calculated_fve
           /\ method_used' = r.method_used
           /\ methodology_text' = r.methodology_text
           /\ dcf_failure_reason' = r.dcf_failure_reason
           /\ multiples_failure_reason' = r.multiples_failure_reason
           /\ dcf_ok' = r.dcf_ok
           /\ pc' = r.pc
           /\ calls' = r.calls
           /\ llm_calls' = r.llm_calls
           /\ narrative_prompt' = r.narrative_prompt
           /\ llm_responses' = r.llm_responses
           /\ previous_run' = r.previous_run
           /\ outcome' = r.outcome
    /\ instance' = other.id
    /\ other' = Suspended
    /\ interleaved' = (interleaved \/ (UnderWay(pc) /\ UnderWay(other.pc)))
    /\ UNCHANGED <<stage1_years, llm_handler>>

\* the one run of an instance
StartOneRun ==
    /\ pc = "idle"
    /\ \E ctx \in TwoContexts : RunValuationProcess(ctx)

TwoInstancesInit ==
    /\ instance = 1
    /\ stage1_years = Stage1Years
    /\ Constructed
    /\ other = ConstructedInstance(2)
    /\ interleaved = FALSE
    /\ NoHandler

TwoInstancesNext ==
    \/ StartOneRun
    \/ CalculateBaseFcfeZero
    \/ \E resp \in TwoDcfResponses : GenerateDcfAssumptionsWithLlm(resp)
    \/ PerformDcfCalculation
    \/ \E resp \in TwoMultResponses : GenerateMultiplesAssumptionsWithLlm(resp)
    \/ PerformMultiplesCalculation
    \/ \E resp \in TwoNarrativeResponses :
           GenerateFinalMethodologyTextWithLlm(resp)
    \/ ComposeFailureText
    \/ Switch

TwoInstances == TwoInstancesInit /\ [][TwoInstancesNext]_vars

\* the handler alone: handlers are constructed and asked for text
LlmHandler == Init /\ [][LlmHandlerNext]_vars

----------------------------------------------------------------------------
(* Properties of a run *)

\* ---------------------------------------------------------------------
\* The base cash flow over every combination of signs of its four inputs
\* ---------------------------------------------------------------------

\* the most recent year's net income, capex, D&A and change in working
\* capital, each negative, zero or positive
SignContexts ==
    {[companyName |-> "Acme", ticker |-> "ACM", beta |-> Num(120),
      sharesOutstanding |-> Num(4), trailingPE |-> Num(1500),
      forwardPE |-> None, trailingEps |-> Num(300), forwardEps |-> None,
      historical_financials |-> OneYear(Num(ni), Num(capx), Num(da), Num(nwc))] :
        ni \in {-100, 0, 100}, capx \in {-30, 0, 30}, da \in {-10, 0, 10},
        nwc \in {-5, 0, 5}}

\* the one run of the instance
StartSignRun ==
    /\ pc = "idle"
    /\ \E ctx \in SignContexts : RunValuationProcess(ctx)

BaseCashFlowNext ==
    \/ StartSignRun
    \/ CalculateBaseFcfeZero
    \/ \E resp \in TwoDcfResponses : GenerateDcfAssumptionsWithLlm(resp)
    \/ PerformDcfCalculation
    \/ \E resp \in TwoMultResponses : GenerateMultiplesAssumptionsWithLlm(resp)
    \/ PerformMultiplesCalculation
    \/ \E resp \in TwoNarrativeResponses :
           GenerateFinalMethodologyTextWithLlm(resp)
    \/ ComposeFailureText

BaseCashFlow == Init /\ [][BaseCashFlowNext]_vars

\* the number of times x occurs in seq
Count(seq, x) == Cardinality({i \in DOMAIN seq : seq[i] = x})

\* the place of the one x in seq
Position(seq, x) == CHOOSE i \in DOMAIN seq : seq[i] = x

\* the run has handed control back to its caller
RunEnded == pc \in {"returned", "raised"}

DcfSteps == {"base", "dcf_assumptions", "dcf_calc"}

\* a step of a run, as opposed to the start of a run
StepOfRun == calls' # <<"preflight">>

\* the preflight of the current context fails
PreflightFails ==
    \/ IsNone(fve_input_data.beta)
    \/ ~FloatOk(fve_input_data.beta)
    \/ Falsy(fve_input_data.sharesOutstanding)

\* at least one P/E and at least one EPS are present in the context
MultiplesPreconditions ==
    /\ ~IsNone(fve_input_data.trailingPE) \/ ~IsNone(fve_input_data.forwardPE)
    /\ ~IsNone(fve_input_data.trailingEps) \/ ~IsNone(fve_input_data.forwardEps)

\* C1: at the end of every run, if the DCF path did not succeed the
\* multiples assumption generation was attempted exactly once, after every
\* DCF step; if the DCF path succeeded it was never attempted.
C1_MultiplesAfterFailedDcf ==
    RunEnded =>
        IF dcf_ok
        THEN Count(calls, "multiples_assumptions") = 0
        ELSE /\ Count(calls, "multiples_assumptions") = 1
             /\ \A i \in DOMAIN calls :
                    calls[i] \in DcfSteps =>
                        i < Position(calls, "multiples_assumptions")

\* C1 in the runs that return: the fallback follows every recorded failure
C1_ReturnedRuns == pc = "returned" => C1_MultiplesAfterFailedDcf

\* the text of the preflight's reason for the current context
ExpectedPreflightReason ==
    LET b == fve_input_data.beta
        so == fve_input_data.sharesOutstanding
        beta_part == IF IsNone(b) THEN "Beta missing"
                     ELSE IF b.t = "str" THEN "Beta 'abc' not numeric"
                     ELSE ""
        shares_part == IF IsNone(so) \/ so = Num(0)
                       THEN "Shares Outstanding missing" ELSE ""
    IN  IF beta_part # "" /\ shares_part # ""
        THEN beta_part \o ", " \o shares_part \o "."
        ELSE beta_part \o shares_part \o "."

\* C2: in a run whose context has a null or non-numeric beta, or falsy
\* shares outstanding, the base cash flow is never computed, the capability
\* is never called for DCF assumptions, and the DCF failure reason is the
\* comma-joined failed preflight parts followed by a period.
C2_PreflightFailure ==
    (pc # "idle" /\ PreflightFails) =>
        /\ IsNone(base_fcfe_0)
        /\ \A i \in DOMAIN calls : calls[i] \notin DcfSteps
        /\ Count(llm_calls, "dcf") = 0
        /\ dcf_failure_reason = ExpectedPreflightReason

C2_Witness ==
    /\ pc = "returned"
    /\ IsNone(fve_input_data.beta)
    /\ IsNone(fve_input_data.sharesOutstanding)
    /\ dcf_failure_reason = "Beta missing, Shares Outstanding missing."
    /\ llm_calls = <<"multiples", "narrative">>

\* the DCF steps called so far, in the order of their calls
DcfCalls == SelectSeq(calls, LAMBDA c : c \in DcfSteps)

\* the DCF steps run in the fixed order, each at most once, after a passed
\* preflight; a failed base step leaves no base cash flow and a reason
DcfOrder ==
    /\ DcfCalls \in {<<>>, <<"base">>, <<"base", "dcf_assumptions">>,
                     <<"base", "dcf_assumptions", "dcf_calc">>}
    /\ DcfCalls # <<>> => ~PreflightFails
    /\ Count(llm_calls, "dcf") > 0 => Count(calls, "dcf_assumptions") = 1
    /\ (Count(calls, "base") = 1 /\ IsNone(base_fcfe_0)) =>
           /\ dcf_failure_reason # NULL
           /\ Count(calls, "dcf_assumptions") = 0
           /\ Count(llm_calls, "dcf") = 0

\* once a DCF failure reason is written, the run makes no further DCF step
\* and no DCF request, and keeps the reason; a step that writes a reason is
\* not followed by the next DCF step
DcfShortCircuit ==
    /\ (StepOfRun /\ dcf_failure_reason # NULL) =>
           /\ dcf_failure_reason' = dcf_failure_reason
           /\ calls'[Len(calls')] \notin DcfSteps
           /\ Count(llm_calls', "dcf") = Count(llm_calls, "dcf")
    /\ (StepOfRun /\ dcf_failure_reason = NULL /\ dcf_failure_reason' # NULL) =>
           /\ calls'[Len(calls')] \in DcfSteps
           /\ pc' \notin {"dcf_assumptions", "dcf_calc"}
           /\ ~dcf_ok'

\* C3: when preflight passes the DCF steps run in the order base cash flow,
\* DCF assumptions, DCF calculation; the first failing step ends the DCF
\* path (no DCF request after a failed base step, no calculation after
\* rejected assumptions) and its failure reason is never overwritten later
\* in the run.
C3_DcfStepsShortCircuit == [](DcfOrder) /\ [][DcfShortCircuit]_vars

C3_Witness ==
    /\ pc = "returned"
    /\ calls = <<"preflight", "base", "multiples_assumptions",
                 "multiples_calc", "narrative">>
    /\ dcf_failure_reason # NULL
    /\ IsNone(base_fcfe_0)
    /\ method_used = "P/E Multiples-Based"

\* C4: at return the fair value is null exactly when the method is
\* 'Valuation Failed'; otherwise the method is the DCF or the P/E method and
\* the returned fair value is the computed, non-null one.
C4_FinalStates ==
    pc = "returned" =>
        /\ outcome.kind = "returned"
        /\ outcome.fve = calculated_fve
        /\ IsNone(outcome.fve) <=> method_used = "Valuation Failed"
        /\ method_used \in {"Valuation Failed", "Two-Stage FCFE DCF",
                            "P/E Multiples-Based"}
        /\ method_used = "Two-Stage FCFE DCF" <=> dcf_ok

C4_Witness ==
    /\ pc = "returned"
    /\ method_used = "Valuation Failed"
    /\ IsNone(outcome.fve)
    /\ calls = <<"preflight", "base", "dcf_assumptions", "dcf_calc",
                 "multiples_assumptions", "multiples_calc", "failure_text">>

C6_NarrativeCall ==
    pc = "returned" =>
        IF method_used = "Valuation Failed"
        THEN /\ Count(llm_calls, "narrative") = 0
             /\ narrative_prompt = NULL
             /\ dcf_failure_reason # NULL /\ multiples_failure_reason # NULL
             /\ outcome.text
                    = "VALUATION_METHODOLOGY:\nValuation for "
                      \o fve_input_data.companyName \o " ("
                      \o fve_input_data.ticker \o ") failed. "
                      \o "DCF valuation could not be performed due to: "
                      \o dcf_failure_reason \o ". "
                      \o "Multiples valuation could not be performed due to: "
                      \o multiples_failure_reason \o "."
        ELSE /\ Count(llm_calls, "narrative") = 1
             /\ llm_calls[Len(llm_calls)] = "narrative"
             /\ narrative_prompt # NULL

C6_Witness ==
    /\ pc = "returned"
    /\ method_used = "Valuation Failed"
    /\ llm_calls = <<"dcf", "multiples">>
    /\ Contains(outcome.text, "failed. DCF valuation could not be performed")

\* the texts a failed narrative step leaves
NarrativeFailureTexts ==
    {"VALUATION_METHODOLOGY:\nLLM explanation for methodology was empty.",
     "VALUATION_METHODOLOGY:\nError generating methodology explanation: "
         \o LlmErrorMessage}

\* the step from a computed fair value to the return
NarrativeKeepsResult ==
    (pc = "final" /\ ~IsNone(calculated_fve)) =>
        /\ pc' = "returned"
        /\ outcome'.kind = "returned"
        /\ outcome'.fve = calculated_fve
        /\ calculated_fve' = calculated_fve
        /\ method_used' = method_used
        /\ outcome'.text # NULL
        /\ Len(Strip(outcome'.text)) > Len(MethodologyPrefix)

\* C7: once a method has computed a fair value, the narrative step,
\* whatever the capability does (content, empty or blank text, nothing, an
\* exception), is followed by the return of that same fair value with the
\* same method and a non-empty methodology text.
C7_NarrativeFailureKeepsResult == [][NarrativeKeepsResult]_vars

C7_Witness ==
    /\ pc = "returned"
    /\ method_used = "Two-Stage FCFE DCF"
    /\ ~IsNone(outcome.fve)
    /\ outcome.text \in NarrativeFailureTexts
    /\ outcome.text
           # "VALUATION_METHODOLOGY:\nLLM explanation for methodology was empty."

\* C8: at the end of every run, the DCF failure reason is non-null if the
\* DCF path did not succeed; both reasons are non-null if no method gave a
\* fair value; both are null if the DCF path succeeded.
C8_ReasonsRetained ==
    RunEnded =>
        /\ ~dcf_ok => dcf_failure_reason # NULL
        /\ IsNone(calculated_fve) =>
               dcf_failure_reason # NULL /\ multiples_failure_reason # NULL
        /\ dcf_ok => dcf_failure_reason = NULL /\ multiples_failure_reason = NULL

\* C8 in the runs that return
C8_ReturnedRuns == pc = "returned" => C8_ReasonsRetained

\* C9: the text a run returns contains the failure reason of each method
\* that failed in the run.
C9_ReasonsInText ==
    pc = "returned" =>
        /\ dcf_failure_reason # NULL =>
               Contains(outcome.text, dcf_failure_reason)
        /\ multiples_failure_reason # NULL =>
               Contains(outcome.text, multiples_failure_reason)

\* C9 in the runs that return no fair value
C9_TotalFailureRuns ==
    (pc = "returned" /\ IsNone(outcome.fve)) => C9_ReasonsInText

\* C10: no run ends with an exception: every run that has ended returned a
\* pair, and a null fair value comes with a populated message.
C10_NeverRaises ==
    RunEnded =>
        /\ pc = "returned"
        /\ outcome.kind = "returned"
        /\ IsNone(outcome.fve) =>
               Len(outcome.text) > Len(MethodologyPrefix)

\* the orders in which one run may call the capability
LlmCallOrders ==
    {<<>>, <<"dcf">>, <<"multiples">>, <<"dcf", "multiples">>,
     <<"dcf", "narrative">>, <<"multiples", "narrative">>,
     <<"dcf", "multiples", "narrative">>}

\* C11: a run calls the capability at most three times, in the order DCF
\* assumptions, multiples assumptions, narrative, each kind at most once
\* (no call is made again after it failed, returned nothing or raised), and
\* each step that calls it is itself executed at most once.
C11_LlmCallsBounded ==
    /\ llm_calls \in LlmCallOrders
    /\ Len(llm_calls) <= 3
    /\ \A k \in {"dcf", "multiples", "narrative"} : Count(llm_calls, k) <= 1
    /\ \A c \in {"dcf_assumptions", "multiples_assumptions", "narrative"} :
           Count(calls, c) <= 1

C11_Witness ==
    /\ pc = "returned"
    /\ llm_calls = <<"dcf", "multiples", "narrative">>
    /\ dcf_failure_reason = "LLM call failed (DCF assumptions): timeout"

\* what the run's call of the given kind was answered (none: the call raises)
AnswerTo(kind) ==
    IF Count(llm_calls, kind) = 1
    THEN llm_responses[Position(llm_calls, kind)]
    ELSE LlmRaise

\* the fields a run leaves and what it gave its caller
Fields(base, a, m, fve, method, text, dcf_reason, mult_reason, out) ==
    [base_fcfe_0 |-> base, dcf_assumptions |-> a,
     multiples_assumptions |-> m, calculated_fve |-> fve,
     method_used |-> method, methodology_text |-> text,
     dcf_failure_reason |-> dcf_reason,
     multiples_failure_reason |-> mult_reason, outcome |-> out]

CurrentFields ==
    Fields(base_fcfe_0, dcf_assumptions, multiples_assumptions,
           calculated_fve, method_used, methodology_text,
           dcf_failure_reason, multiples_failure_reason, outcome)

\* the end of a run on a newly constructed instance, from the computed
\* value on: the narrative or the failure message, then the return
FreshEnd(ctx, base, a, m, fve, method, dcf_reason, mult_reason, narr) ==
    IF ~IsNone(fve)
    THEN LET n == GenerateFinalText(ctx, base, a, m, fve, method,
                                    ResetMethodologyText, dcf_reason,
                                    mult_reason, narr)
             text == SuccessText(ctx, fve, method, n.ret, n.text)
         IN  Fields(base, a, m, fve, method, text, dcf_reason, mult_reason,
                    Returned(fve, text))
    ELSE LET text == FailureText(ctx, dcf_reason, mult_reason)
         IN  Fields(base, a, m, fve, "Valuation Failed", text, dcf_reason,
                    mult_reason, Returned(fve, text))

\* the fallback of a run on a newly constructed instance
FreshMultiples(ctx, base, a, dcf_reason, mult, narr) ==
    LET g == GenerateMultiples(ctx, ResetMultiplesAssumptions, NULL, mult)
        both == /\ ~IsNone(g.m.selected_pe_multiple_value)
                /\ ~IsNone(g.m.selected_eps_value)
        c == IF g.ret = "true" /\ both THEN PerformMultiples(g.m)
             ELSE [ok |-> FALSE, reason |-> g.reason, fve |-> None]
    IN  IF g.ret = "raise"
        THEN Fields(base, a, g.m, None, NULL, ResetMethodologyText,
                    dcf_reason, g.reason, Raised(g.exc))
        ELSE FreshEnd(ctx, base, a, g.m, c.fve,
                      IF c.ok THEN "P/E Multiples-Based" ELSE NULL,
                      dcf_reason, c.reason, narr)

\* a whole run on a newly constructed instance with the same configuration,
\* for a context and the answers of the capability
FreshRun(ctx, dcf, mult, narr) ==
    LET pre == PreflightReason(ctx)
        b == IF pre = NULL THEN CalcBase(ctx)
             ELSE [ok |-> FALSE, base |-> None, reason |-> pre]
        d == IF b.ok /\ ~IsNone(b.base)
             THEN GenerateDcf(ctx, b.base, ResetDcfAssumptions, NULL, dcf)
             ELSE [ret |-> "false", reason |-> b.reason,
                   a |-> ResetDcfAssumptions, called |-> FALSE]
        c == IF d.ret = "true" THEN PerformDcf(ctx, b.base, d.a)
             ELSE [ok |-> FALSE, reason |-> d.reason, fve |-> None]
    IN  IF d.ret = "raise"
        THEN Fields(b.base, d.a, ResetMultiplesAssumptions, None, NULL,
                    ResetMethodologyText, d.reason, NULL, Raised("TypeError"))
        ELSE IF c.ok
        THEN FreshEnd(ctx, b.base, d.a, ResetMultiplesAssumptions, c.fve,
                      "Two-Stage FCFE DCF", NULL, NULL, narr)
        ELSE FreshMultiples(ctx, b.base, d.a, c.reason, mult, narr)

\* C12: at the end of a run that is not the first on its instance, every
\* field and the returned pair equal those of the same run (same context,
\* same answers of the capability) on a newly constructed instance.
C12_NoStateAcrossRuns ==
    (RunEnded /\ previous_run # "none") =>
        CurrentFields = FreshRun(fve_input_data, AnswerTo("dcf"),
                                 AnswerTo("multiples"), AnswerTo("narrative"))

\* the same for the first run of an instance
C12_FirstRuns ==
    (RunEnded /\ previous_run = "none") =>
        CurrentFields = FreshRun(fve_input_data, AnswerTo("dcf"),
                                 AnswerTo("multiples"), AnswerTo("narrative"))

C12_Witness ==
    /\ pc = "returned"
    /\ previous_run = "Valuation Failed"
    /\ method_used = "P/E Multiples-Based"
    /\ multiples_failure_reason = NULL
    /\ dcf_failure_reason = "Beta missing."

\* C13: with two instances whose steps interleave in any order, each
\* instance ends its run with the fields and the returned pair of the same
\* run (same context, same answers of the capability) made alone on a newly
\* constructed instance.
C13_InstancesIndependent ==
    (RunEnded /\ other.pc # "absent") =>
        CurrentFields = FreshRun(fve_input_data, AnswerTo("dcf"),
                                 AnswerTo("multiples"), AnswerTo("narrative"))

C13_Witness ==
    /\ interleaved
    /\ pc = "returned"
    /\ other.pc = "returned"
    /\ method_used = "Two-Stage FCFE DCF"
    /\ other.method_used = "Valuation Failed"
    /\ Len(calls) > 1 /\ Len(other.calls) > 1

\* the run asked for DCF assumptions and was answered with a JSON object
DcfAnswered == Count(llm_calls, "dcf") = 1 /\ AnswerTo("dcf").kind = "json"

\* the generator accepted the answer: the DCF calculation was entered
DcfAccepted == Count(calls, "dcf_calc") = 1

\* the answer has every key, a numeric stage-1 list of the configured
\* length, and a numeric g and a numeric positive Ke
ReachesSpreadCheck(resp) ==
    /\ resp.keys = DcfKeySet
    /\ resp.s1.list
    /\ Len(resp.s1.items) = stage1_years
    /\ \A i \in 1..Len(resp.s1.items) : IsNum(resp.s1.items[i])
    /\ IsNum(resp.g) /\ IsNum(resp.ke) /\ resp.ke.v > 0

C15_ShapeInvariant ==
    /\ DcfAccepted =>
           /\ Len(dcf_assumptions.fcfe_growth_stage1_pct) = stage1_years
           /\ AnswerTo("dcf").s1.list
           /\ dcf_assumptions.fcfe_growth_stage1_pct
                  = [i \in 1..stage1_years |-> AnswerTo("dcf").s1.items[i].v]
    /\ dcf_ok => Len(dcf_assumptions.fcfe_growth_stage1_pct) = stage1_years
    /\ DcfAnswered =>
           LET s1 == AnswerTo("dcf").s1
           IN  (~s1.list \/ Len(s1.items) # stage1_years) =>
                   /\ ~DcfAccepted
                   /\ ~dcf_ok
                   /\ dcf_assumptions.fcfe_growth_stage1_pct = <<>>
                   /\ dcf_failure_reason # NULL
                   /\ AnswerTo("dcf").keys = DcfKeySet =>
                          Contains(dcf_failure_reason,
                                   "is not a list of " \o ToString(stage1_years)
                                       \o " items as requested")

\* a list of another length has been rejected with the shape reason
C15_Rejected(s1) ==
    /\ pc = "returned"
    /\ DcfAnswered
    /\ AnswerTo("dcf").s1 = s1
    /\ AnswerTo("dcf").keys = DcfKeySet
    /\ Contains(dcf_failure_reason, "is not a list of ")
    /\ dcf_assumptions.fcfe_growth_stage1_pct = <<>>

C15_Witness ==
    \/ C15_Rejected(AList([i \in 1..(Stage1Years + 1) |-> Num(500)]))
       /\ method_used = "P/E Multiples-Based"
    \/ C15_Rejected(AList([i \in 1..(Stage1Years - 1) |-> Num(500)]))
       /\ method_used = "P/E Multiples-Based"

\* the DCF calculation ran on usable inputs and came to this value per share
DcfPerShare ==
    FvePerShare(base_fcfe_0.v, dcf_assumptions.fcfe_growth_stage1_pct,
                dcf_assumptions.perpetual_growth_rate_g_pct.v,
                dcf_assumptions.cost_of_equity_ke_pct.v,
                fve_input_data.sharesOutstanding.v)

DcfComputed ==
    /\ Count(calls, "dcf_calc") = 1
    /\ IsNum(fve_input_data.sharesOutstanding)
    /\ fve_input_data.sharesOutstanding.v > 0

\* C16: a fair value held or returned, by either method, is never below
\* zero; a DCF calculation that comes to a negative value per share fails
\* with the negative-value reason and sets no fair value.
C16_FairValueNonNegative ==
    /\ IsNum(calculated_fve) => calculated_fve.v >= 0
    /\ IsNum(outcome.fve) => outcome.fve.v >= 0
    /\ (DcfComputed /\ DcfPerShare[1] < 0) =>
           /\ ~dcf_ok
           /\ method_used # "Two-Stage FCFE DCF"
           /\ Contains(dcf_failure_reason, "Calculated FVE per share is negative ($-")
           /\ method_used # "P/E Multiples-Based" => IsNone(calculated_fve)
    /\ (DcfComputed /\ DcfPerShare[1] >= 0) =>
           (dcf_ok /\ calculated_fve = Num(Round2(DcfPerShare)))

C16_Witness ==
    /\ pc = "returned"
    /\ DcfComputed
    /\ DcfPerShare[1] < 0
    /\ Contains(dcf_failure_reason, "Calculated FVE per share is negative ($-")
    /\ IsNone(calculated_fve)
    /\ IsNone(outcome.fve)

\* the four lists the base cash flow reads, in the order of their names
CritLists ==
    LET hist == fve_input_data.historical_financials
    IN  <<hist.netIncome_list, hist.capitalExpenditures_list,
          hist.depreciationAndAmortizationCF_list,
          hist.changeInWorkingCapital_list>>

\* the most recent value of the i-th list is null: the list is empty or
\* absent, or its entry at index 0 is null
MostRecentNull(i) == CritLists[i] = <<>> \/ IsNone(CritLists[i][1])

NullInputs == {i \in 1..4 : MostRecentNull(i)}

NonNumericInputs == {i \in 1..4 : ~MostRecentNull(i) /\ ~IsNum(CritLists[i][1])}

\* the names of the null inputs, joined as the reason lists them
NullInputNames ==
    Join(", ", (IF 1 \in NullInputs THEN <<"NI">> ELSE <<>>)
               \o (IF 2 \in NullInputs THEN <<"Capex">> ELSE <<>>)
               \o (IF 3 \in NullInputs THEN <<"D&A">> ELSE <<>>)
               \o (IF 4 \in NullInputs THEN <<"NWC">> ELSE <<>>))

BaseRan == Count(calls, "base") = 1

\* the base step returned False: the run went on without asking for DCF
\* assumptions
BaseFailed ==
    BaseRan /\ pc # "dcf_assumptions" /\ Count(calls, "dcf_assumptions") = 0

\* the reason names exactly the null inputs
NamesExactlyNull ==
    \A i \in 1..4 : Contains(dcf_failure_reason, CritNames[i]) <=> i \in NullInputs

\* C17 as stated: the base cash-flow calculation fails if and only if one
\* of the four most recent values is null, its reason names exactly the
\* null ones, and on failure the base cash flow stays null.
C17_MissingInputCompleteness ==
    BaseRan =>
        /\ BaseFailed <=> NullInputs # {}
        /\ BaseFailed => (NamesExactlyNull /\ IsNone(base_fcfe_0))

\* C17 as the code has it: the calculation fails if and only if the
\* historical financials are absent, or one of the four most recent values
\* is null, or one of them is not a number; with the historical financials
\* there and a null value the reason names exactly the null ones; absent
\* historical financials are reported without naming a field and a
\* non-numeric value as a type error; on every failure the base cash flow
\* stays null.
C17_BaseFailureCases ==
    BaseRan =>
        LET hist == fve_input_data.historical_financials
        IN  /\ BaseFailed <=> \/ ~hist.present
                              \/ NullInputs # {}
                              \/ NonNumericInputs # {}
            /\ BaseFailed => IsNone(base_fcfe_0)
            /\ ~BaseFailed => IsNum(base_fcfe_0)
            /\ ~hist.present =>
                   dcf_failure_reason = "Historical financials data not available."
            /\ (hist.present /\ NullInputs # {}) =>
                   /\ dcf_failure_reason
                          = "Missing critical FCFE_0 inputs: "
                                \o NullInputNames \o "."
                   /\ NamesExactlyNull
            /\ (hist.present /\ NullInputs = {} /\ NonNumericInputs # {}) =>
                   Contains(dcf_failure_reason, "FCFE_0 calculation type error: ")

\* net income alone is null and the reason names NI alone
C17_Witness ==
    /\ BaseFailed
    /\ fve_input_data.historical_financials.present
    /\ NullInputs = {1}
    /\ dcf_failure_reason = "Missing critical FCFE_0 inputs: NI."
    /\ IsNone(base_fcfe_0)

\* the most recent value of the i-th input
MostRecent(i) == CritLists[i][1]

\* the context with the sign of the most recent capex turned round
NegatedCapex(ctx) ==
    [ctx EXCEPT !.historical_financials.capitalExpenditures_list =
                    <<Num(0 - ctx.historical_financials
                                 .capitalExpenditures_list[1].v)>>
                    \o Tail(ctx.historical_financials.capitalExpenditures_list)]

\* C18: with all four most recent inputs present the base cash flow is
\* NI - (|Capex| - D&A) - dNWC whatever the signs of the inputs, and it is
\* the one the calculation gives for the capex of the opposite sign.
C18_BaseCashFlowFormula ==
    (BaseRan /\ fve_input_data.historical_financials.present
        /\ \A i \in 1..4 : ~MostRecentNull(i) /\ IsNum(MostRecent(i))) =>
        LET ni == MostRecent(1).v
            capx == MostRecent(2).v
            da == MostRecent(3).v
            nwc == MostRecent(4).v
            magnitude == IF capx < 0 THEN 0 - capx ELSE capx
        IN  /\ ~BaseFailed
            /\ base_fcfe_0 = Num(ni - (magnitude - da) - nwc)
            /\ CalcBase(NegatedCapex(fve_input_data)).ok
            /\ CalcBase(NegatedCapex(fve_input_data)).base = base_fcfe_0

\* every input negative: -100 - (|-30| - (-10)) - (-5) = -135
C18_Witness ==
    /\ BaseRan
    /\ MostRecent(1) = Num(-100) /\ MostRecent(2) = Num(-30)
    /\ MostRecent(3) = Num(-10) /\ MostRecent(4) = Num(-5)
    /\ base_fcfe_0 = Num(-135)
    /\ CalcBase(NegatedCapex(fve_input_data)).base = Num(-135)

MultiplesCalcRan == Count(calls, "multiples_calc") = 1

MultiplesSucceeded == MultiplesCalcRan /\ method_used = "P/E Multiples-Based"

\* a product of two amounts in hundredths, to the nearest hundredth
\* (a tie goes to the even hundredth)
ProductRounded(pe, eps) ==
    LET p == pe * eps
        q == p \div 100
        r == p % 100
    IN  IF r > 50 \/ (r = 50 /\ q % 2 = 1) THEN q + 1 ELSE q

\* C19: the multiples calculation succeeds if and only if the selected P/E
\* is above zero and P/E x EPS is above zero, and then the fair value is
\* the product rounded to two decimals; a P/E of zero or less fails as an
\* invalid multiple whatever the product; a P/E above zero with an EPS of
\* zero or less fails as a non-positive value; on failure no fair value is
\* set.
C19_MultiplesCalculation ==
    MultiplesCalcRan =>
        LET pe == multiples_assumptions.selected_pe_multiple_value
            eps == multiples_assumptions.selected_eps_value
        IN  /\ IsNum(pe) /\ IsNum(eps)
            /\ pe = AnswerTo("multiples").pe /\ eps = AnswerTo("multiples").eps
            /\ MultiplesSucceeded <=> (pe.v > 0 /\ pe.v * eps.v > 0)
            /\ MultiplesSucceeded =>
                   /\ calculated_fve = Num(ProductRounded(pe.v, eps.v))
                   /\ multiples_failure_reason = NULL
            /\ pe.v <= 0 =>
                   Contains(multiples_failure_reason,
                            "must be positive for valuation.")
            /\ (pe.v > 0 /\ eps.v <= 0) =>
                   /\ Contains(multiples_failure_reason,
                               "Calculated FVE from multiples ($")
                   /\ Contains(multiples_failure_reason, ") is not positive.")
            /\ ~MultiplesSucceeded =>
                   /\ IsNone(calculated_fve)
                   /\ IsNone(outcome.fve)
                   /\ method_used \in {NULL, "Valuation Failed"}

\* a negative P/E with a negative EPS: the product is positive and the
\* calculation fails on the multiple
C19_Witness ==
    /\ pc = "returned"
    /\ MultiplesCalcRan
    /\ multiples_assumptions.selected_pe_multiple_value = Num(-1000)
    /\ multiples_assumptions.selected_eps_value = Num(-150)
    /\ multiples_failure_reason
           = "Selected P/E multiple (-10.00) must be positive for valuation."
    /\ IsNone(outcome.fve)
    /\ method_used = "Valuation Failed"

MultiplesGenerationRan == Count(calls, "multiples_assumptions") = 1

\* both P/E values are null, or both EPS values are null
NoMultiplesData ==
    \/ IsNone(fve_input_data.trailingPE) /\ IsNone(fve_input_data.forwardPE)
    \/ IsNone(fve_input_data.trailingEps) /\ IsNone(fve_input_data.forwardEps)

InsufficientDataReason ==
    "Insufficient P/E or EPS data available to generate multiples assumptions."

\* C20: with both P/E values null, or both EPS values null, the generation
\* of multiples assumptions fails with the insufficient-data reason and
\* makes no request to the capability; a run whose DCF preflight fails as
\* well ends as a total failure: no fair value, a text giving both reasons,
\* and no request to the capability at all.
C20_InsufficientMultiplesData ==
    (MultiplesGenerationRan /\ NoMultiplesData) =>
        /\ multiples_failure_reason = InsufficientDataReason
        /\ Count(llm_calls, "multiples") = 0
        /\ Count(calls, "multiples_calc") = 0
        /\ multiples_assumptions = ResetMultiplesAssumptions
        /\ pc # "raised"
        /\ PreflightFails =>
               /\ llm_calls = <<>>
               /\ calls \in {<<"preflight", "multiples_assumptions">>,
                             <<"preflight", "multiples_assumptions", "failure_text">>}
               /\ IsNone(calculated_fve)
               /\ pc = "returned" =>
                      /\ method_used = "Valuation Failed"
                      /\ outcome.kind = "returned"
                      /\ IsNone(outcome.fve)
                      /\ outcome.text = methodology_text
                      /\ Contains(outcome.text, "failed. DCF valuation could not be performed due to: "
                                                    \o dcf_failure_reason)
                      /\ Contains(outcome.text, "Multiples valuation could not be performed due to: "
                                                    \o InsufficientDataReason)

\* no beta and no P/E at all: the run has ended as a total failure without
\* a request to the capability
C20_Witness ==
    /\ pc = "returned"
    /\ MultiplesGenerationRan
    /\ IsNone(fve_input_data.beta)
    /\ IsNone(fve_input_data.trailingPE) /\ IsNone(fve_input_data.forwardPE)
    /\ ~IsNone(fve_input_data.trailingEps)
    /\ dcf_failure_reason = "Beta missing."
    /\ multiples_failure_reason = InsufficientDataReason
    /\ method_used = "Valuation Failed"
    /\ IsNone(outcome.fve)
    /\ llm_calls = <<>>

\* the run asked for multiples assumptions and was answered with a JSON
\* object that has every required key
MultiplesAnswered ==
    /\ Count(llm_calls, "multiples") = 1
    /\ AnswerTo("multiples").kind = "json"
    /\ AnswerTo("multiples").keys = MultKeySet

IndeterminateReason ==
    "LLM indicated that P/E value or EPS value for multiples valuation is not determinable or feasible."

\* a selection that is a number or null
NumberOrNull(x) == IsNum(x) \/ IsNone(x)

TextAsked == generated.kind # "none"

\* the call gave content: a text, as opposed to None
GaveContent == generated.kind = "returned" /\ generated.text # NULL

\* the response of the underlying call carries no text: the call raised,
\* the response is falsy, blocked, without text, or its text is empty
NoTextInResponse ==
    generated.response.what # "text" \/ generated.response.text = ""

\* C22: generate_text never raises and returns either a non-empty text or
\* None; it returns None whenever the class is not configured, the
\* handler's model is not initialised, the response is blocked or empty,
\* or the underlying call raises, and it returns the response's text
\* otherwise.
C22_GenerateTextDistinguishable ==
    TextAsked =>
        /\ generated.kind = "returned"
        /\ generated.text # ""
        /\ ~is_configured => ~GaveContent
        /\ model[generated.handler] # "model" => ~GaveContent
        /\ NoTextInResponse => ~GaveContent
        /\ GaveContent => generated.text = generated.response.text
        /\ (is_configured /\ model[generated.handler] = "model"
                /\ ~NoTextInResponse) => GaveContent

\* a configured handler with a model whose underlying call raised has
\* returned None
C22_Witness ==
    /\ TextAsked
    /\ is_configured
    /\ model[generated.handler] = "model"
    /\ generated.response.what = "raises"
    /\ generated.kind = "returned"
    /\ generated.text = NULL

\* the generator returned True: the DCF calculation is next or has run
GeneratorAccepted == pc = "dcf_calc" \/ DcfAccepted

\* C23: an answer that passes the checks before the spread check is
\* accepted exactly when g <= Ke - minimum spread; in particular an answer
\* whose spread is exactly the minimum is accepted, and only
\* g > Ke - minimum spread is a spread violation.
C23_SpreadBoundary ==
    (DcfAnswered /\ ReachesSpreadCheck(AnswerTo("dcf"))) =>
        LET resp == AnswerTo("dcf")
        IN  /\ GeneratorAccepted
                <=> resp.g.v <= resp.ke.v - MIN_KE_G_SPREAD_DEFAULT
            /\ resp.g.v = resp.ke.v - MIN_KE_G_SPREAD_DEFAULT =>
                   /\ dcf_assumptions.perpetual_growth_rate_g_pct = resp.g
                   /\ dcf_assumptions.cost_of_equity_ke_pct = resp.ke

\* the stage-1 value of the answer is a list of stage1_years numbers
Stage1Valid(resp) ==
    /\ resp.s1.list
    /\ Len(resp.s1.items) = stage1_years
    /\ \A i \in 1..Len(resp.s1.items) : IsNum(resp.s1.items[i])

\* the reason recorded for a parsed JSON object is that of the first check
\* it violates, in the order keys, stage-1 list, Ke > 0, spread
EarliestViolatedCheck(resp) ==
    IF resp.keys # DcfKeySet
    THEN Contains(dcf_failure_reason, "LLM DCF response missing required keys: ")
    ELSE IF ~Stage1Valid(resp)
    THEN \/ Contains(dcf_failure_reason, "is not a list of ")
         \/ Contains(dcf_failure_reason, "contains non-numeric values.")
    ELSE IF IsNum(resp.g) /\ IsNum(resp.ke) /\ resp.ke.v <= 0
    THEN Contains(dcf_failure_reason, "from LLM must be positive.")
    ELSE IF IsNum(resp.g) /\ IsNum(resp.ke)
            /\ resp.g.v > resp.ke.v - MIN_KE_G_SPREAD_DEFAULT
    THEN Contains(dcf_failure_reason, "must be less than Cost of Equity")
    ELSE TRUE

\* C24: the answer to the DCF request is checked in the order JSON
\* extraction, required keys, stage-1 list, Ke > 0, spread, and the reason
\* recorded is that of the first check violated; a JSON object that lacks
\* required keys, the empty object included, is reported as missing keys
\* and not as a parse failure.
C24_ValidationOrder ==
    (DcfAnswered /\ ~GeneratorAccepted) =>
        /\ EarliestViolatedCheck(AnswerTo("dcf"))
        /\ ~Contains(dcf_failure_reason, "Failed to parse JSON")

\* C24 for every answer but the empty object: the reason is that of the
\* first check violated
C24_NonEmptyObjects ==
    (DcfAnswered /\ ~GeneratorAccepted
        /\ (AnswerTo("dcf").keys # {} \/ AnswerTo("dcf").extra)) =>
        /\ EarliestViolatedCheck(AnswerTo("dcf"))
        /\ ~Contains(dcf_failure_reason, "Failed to parse JSON")

\* 1 + p for a percentage p kept in hundredths of a percent
OnePlus(p) == Rat(10000 + p, 10000)

RECURSIVE CashFlowOfYear(_)
\* CF_0 is the base cash flow and CF_i = CF_(i-1) x (1 + s_i)
CashFlowOfYear(i) ==
    IF i = 0 THEN Rat(base_fcfe_0.v, 1)
    ELSE RatMul(CashFlowOfYear(i - 1),
                OnePlus(dcf_assumptions.fcfe_growth_stage1_pct[i]))

\* CF_i / (1 + Ke)^i
PresentValueOfYear(i) ==
    RatDiv(CashFlowOfYear(i),
           RatPow(OnePlus(dcf_assumptions.cost_of_equity_ke_pct.v), i))

RECURSIVE SumOfPresentValues(_)
SumOfPresentValues(n) ==
    IF n = 0 THEN <<0, 1>>
    ELSE RatAdd(SumOfPresentValues(n - 1), PresentValueOfYear(n))

\* [CF_N x (1 + g) / (Ke - g)] / (1 + Ke)^N
PresentTerminalValue ==
    LET g == dcf_assumptions.perpetual_growth_rate_g_pct.v
        ke == dcf_assumptions.cost_of_equity_ke_pct.v
        tv == RatDiv(RatMul(CashFlowOfYear(stage1_years), OnePlus(g)),
                     Rat(ke - g, 10000))
    IN  RatDiv(tv, RatPow(OnePlus(ke), stage1_years))

EquityValue == RatAdd(SumOfPresentValues(stage1_years), PresentTerminalValue)

\* C25: the fair value of a successful DCF calculation is the sum of the
\* grown cash flows CF_i = CF_(i-1) x (1 + s_i), each discounted by
\* (1 + Ke)^i, plus the terminal value on the last grown cash flow CF_N,
\* discounted by (1 + Ke)^N, divided by the shares outstanding and rounded
\* to two decimals.
C25_GrowThenDiscount ==
    dcf_ok =>
        /\ method_used = "Two-Stage FCFE DCF"
        /\ calculated_fve
               = Num(Round2(RatDiv(EquityValue,
                                   Rat(fve_input_data.sharesOutstanding.v, 1))))

\* base 100, 5% growth each year, Ke 10%, g 2%, 4 shares: the first year's
\* cash flow is 105, discounted by 1.10; with two years the value is 337.07
C25_Witness ==
    /\ dcf_ok
    /\ base_fcfe_0 = Num(100)
    /\ \A i \in 1..stage1_years : dcf_assumptions.fcfe_growth_stage1_pct[i] = 500
    /\ dcf_assumptions.cost_of_equity_ke_pct = Num(1000)
    /\ dcf_assumptions.perpetual_growth_rate_g_pct = Num(200)
    /\ fve_input_data.sharesOutstanding = Num(4)
    /\ CashFlowOfYear(1) = <<105, 1>>
    /\ PresentValueOfYear(1) = <<1050, 11>>
    /\ Stage1Years = 2 => calculated_fve = Num(33707)
    /\ outcome.fve = calculated_fve

\* shares outstanding the DCF calculation can divide by: a number above 0
SharesUsable ==
    IsNum(fve_input_data.sharesOutstanding)
        /\ fve_input_data.sharesOutstanding.v > 0

\* shares outstanding that are negative or not a number: present, so not
\* falsy, and not usable
SharesPresentUnusable ==
    \/ fve_input_data.sharesOutstanding.t = "str"
    \/ IsNum(fve_input_data.sharesOutstanding)
           /\ fve_input_data.sharesOutstanding.v < 0

RunStarted == Count(calls, "preflight") = 1

\* C26: a DCF calculation on shares outstanding that are absent, not a
\* number or not above zero fails with the invalid-shares reason and sets
\* no value; negative or non-numeric shares pass the preflight, so with a
\* numeric beta the DCF steps run, the DCF path fails at the calculation,
\* after the request for DCF assumptions, and the run goes on to the
\* multiples path.
C26_InvalidShares ==
    /\ (DcfAccepted /\ ~SharesUsable) =>
           /\ ~dcf_ok
           /\ Contains(dcf_failure_reason, "Shares outstanding ('"
                           \o PyStr(fve_input_data.sharesOutstanding)
                           \o "') is invalid or not positive: ")
           /\ method_used # "Two-Stage FCFE DCF"
           /\ Count(calls, "multiples_calc") = 0 => IsNone(calculated_fve)
           /\ llm_calls[1] = "dcf"
           /\ pc = "multiples" \/ Count(calls, "multiples_assumptions") = 1
    /\ (DcfAccepted /\ SharesUsable) =>
           ~Contains(dcf_failure_reason, "Shares outstanding")
    /\ (RunStarted /\ SharesPresentUnusable /\ IsNum(fve_input_data.beta)) =>
           /\ pc = "base" \/ Count(calls, "base") = 1
           /\ (Count(llm_calls, "dcf") = 1
                   /\ AnswerTo("dcf")
                          = DcfJson(DcfKeySet, FALSE, AList(GoodS1), Num(200),
                                    Num(1000))) =>
                  (pc = "dcf_calc" \/ DcfAccepted)

\* -4 shares: the DCF request was made and accepted, the calculation failed
\* on the shares and the value came from the multiples path
C26_Witness ==
    /\ pc = "returned"
    /\ fve_input_data.sharesOutstanding = Num(-4)
    /\ llm_calls = <<"dcf", "multiples", "narrative">>
    /\ calls = <<"preflight", "base", "dcf_assumptions", "dcf_calc",
                 "multiples_assumptions", "multiples_calc", "narrative">>
    /\ dcf_failure_reason
           = "Shares outstanding ('-4') is invalid or not positive: Shares outstanding must be positive and greater than zero."
    /\ method_used = "P/E Multiples-Based"

\* the context passes the DCF preflight
PassesPreflight(ctx) == IsNum(ctx.beta) /\ ~Falsy(ctx.sharesOutstanding)

\* the run of this instance and the run of the other one have returned,
\* both passed the preflight on contexts that differ at most in the value
\* of beta, and the capability gave both the same answers
SameRunButBeta ==
    /\ pc = "returned" /\ other.pc = "returned"
    /\ PassesPreflight(fve_input_data)
    /\ PassesPreflight(other.fve_input_data)
    /\ [fve_input_data EXCEPT !.beta = None]
           = [other.fve_input_data EXCEPT !.beta = None]
    /\ llm_calls = other.llm_calls
    /\ llm_responses = other.llm_responses

\* the run that has ended, made again on the same answers with another
\* value of beta
RunWithBeta(b) ==
    FreshRun([fve_input_data EXCEPT !.beta = b], AnswerTo("dcf"),
             AnswerTo("multiples"), AnswerTo("narrative"))

\* C27: two runs that pass the preflight on contexts that differ only in
\* the value of beta, on instances configured with different risk-free
\* rates and equity risk premiums, and that get the same answers from the
\* capability, return the same fair value by the same method; and a run
\* made again with another value of beta on the same answers returns the
\* same fair value and method.
C27_CapmReferenceOnlyAnchors ==
    /\ SameRunButBeta =>
           /\ outcome.fve = other.outcome.fve
           /\ calculated_fve = other.calculated_fve
           /\ method_used = other.method_used
    /\ (pc = "returned" /\ PassesPreflight(fve_input_data)) =>
           \A b \in {Num(80), Num(120)} :
               /\ RunWithBeta(b).outcome.fve = outcome.fve
               /\ RunWithBeta(b).method_used = method_used

\* betas 0.8 and 1.2, rates 4%/5% and 4.2%/4.5%: the two narrative
\* requests differ and the DCF fair values are the same
C27_Witness ==
    /\ SameRunButBeta
    /\ fve_input_data.beta # other.fve_input_data.beta
    /\ dcf_assumptions.rfr_pct_used # other.dcf_assumptions.rfr_pct_used
    /\ dcf_assumptions.erp_pct_used # other.dcf_assumptions.erp_pct_used
    /\ dcf_assumptions.beta_used # other.dcf_assumptions.beta_used
    /\ narrative_prompt # other.narrative_prompt
    /\ method_used = "Two-Stage FCFE DCF"
    /\ IsNum(outcome.fve)
    /\ outcome.fve = other.outcome.fve

\* ---------------------------------------------------------------------
\* The DCF path over every stage-1 horizon an instance may be built with
\* ---------------------------------------------------------------------

\* contexts whose base cash flow is positive or negative and whose shares
\* are usable or not
HorizonContexts ==
    [companyName : {"Acme"}, ticker : {"ACM"}, beta : {Num(120)},
     sharesOutstanding : {Num(4), Num(-4)}, trailingPE : {Num(1500)},
     forwardPE : {None}, trailingEps : {Num(300)}, forwardEps : {None},
     historical_financials : {OneYear(Num(100), Num(-30), Num(10), Num(5)),
                              OneYear(Num(-100), Num(-30), Num(10), Num(5))}]

\* answers with a stage-1 list of every length up to the largest horizon
HorizonDcfResponses ==
    {LlmRaise}
    \cup {DcfJson(DcfKeySet, FALSE, AList([i \in 1..n |-> Num(500)]), g,
                  Num(1000)) :
            n \in 0..Stage1Years, g \in {Num(200), Num(949), Num(950)}}

\* FVEAgent(llm, rfr, erp, stage1_years): any horizon from 0 years on
HorizonsInit ==
    /\ instance = 1
    /\ stage1_years \in 0..Stage1Years
    /\ Constructed
    /\ other = NoInstance
    /\ interleaved = FALSE
    /\ NoHandler

\* the one run of the instance
StartHorizonRun ==
    /\ pc = "idle"
    /\ \E ctx \in HorizonContexts : RunValuationProcess(ctx)

HorizonsNext ==
    \/ StartHorizonRun
    \/ CalculateBaseFcfeZero
    \/ \E resp \in HorizonDcfResponses : GenerateDcfAssumptionsWithLlm(resp)
    \/ PerformDcfCalculation
    \/ \E resp \in TwoMultResponses : GenerateMultiplesAssumptionsWithLlm(resp)
    \/ PerformMultiplesCalculation
    \/ \E resp \in TwoNarrativeResponses :
           GenerateFinalMethodologyTextWithLlm(resp)
    \/ ComposeFailureText

Horizons == HorizonsInit /\ [][HorizonsNext]_vars

\* the DCF calculation ran on an accepted answer and failed
DcfCalculationFailed == DcfAccepted /\ ~dcf_ok

\* the two failures that do not come from a defensive guard
SharesOrNegativeValue ==
    \/ Contains(dcf_failure_reason, "Shares outstanding ('")
    \/ Contains(dcf_failure_reason, "Calculated FVE per share is negative")

\* C28: for every stage-1 horizon an instance is configured with, and the
\* default minimum spread, a DCF calculation that runs on an answer the
\* generator accepted fails only on invalid shares outstanding or on a
\* negative value per share: never with missing essential assumptions, a
\* stage-1 length mismatch, a spread violation or a degenerate terminal
\* value.
C28_GuardsNeverFire == DcfCalculationFailed => SharesOrNegativeValue

\* on every horizon of at least one year the guards do stay silent
C28_PositiveHorizons ==
    (stage1_years > 0 /\ DcfCalculationFailed) => SharesOrNegativeValue

\* horizon 0: the empty stage-1 list was accepted, and the calculation
\* reports the essential assumptions as missing
C28_ZeroHorizon ==
    /\ stage1_years = 0
    /\ DcfCalculationFailed
    /\ AnswerTo("dcf") = DcfJson(DcfKeySet, FALSE, AList(<<>>), Num(200),
                                 Num(1000))
    /\ dcf_assumptions.fcfe_growth_stage1_pct = <<>>
    /\ dcf_assumptions.cost_of_equity_ke_pct = Num(1000)
    /\ dcf_failure_reason
           = "Missing essential DCF assumptions (Ke, g, Stage 1 growth)."

\* the stored cost of equity, perpetual growth rate and stage-1 rates
StoredKe == dcf_assumptions.cost_of_equity_ke_pct

StoredG == dcf_assumptions.perpetual_growth_rate_g_pct

StoredStage1 == dcf_assumptions.fcfe_growth_stage1_pct

\* C29: in every state of a run the stored Ke and the stored g are both
\* null or both non-null; when they are non-null the stored assumptions are
\* validated ones: both are numbers, Ke > 0, g < Ke - minimum spread, and
\* the stored stage-1 list has exactly stage1_years numeric entries.
C29_StoredAssumptionsValidated ==
    /\ IsNone(StoredKe) <=> IsNone(StoredG)
    /\ ~IsNone(StoredKe) =>
           /\ IsNum(StoredKe) /\ IsNum(StoredG)
           /\ StoredKe.v > 0
           /\ StoredG.v < StoredKe.v - min_ke_g_spread_pct
           /\ Len(StoredStage1) = stage1_years
           /\ \A i \in 1..Len(StoredStage1) : StoredStage1[i] \in Int

\* an accepted answer next to the boundary is stored whole
C29_Witness ==
    /\ DcfAccepted
    /\ StoredKe = Num(1000)
    /\ StoredG = Num(949)
    /\ StoredStage1 = [i \in 1..stage1_years |-> 500]
    /\ stage1_years = Stage1Years

\* the DCF request was answered and the generator returned False
DcfRejected ==
    /\ Count(llm_calls, "dcf") = 1
    /\ Count(calls, "dcf_calc") = 0
    /\ pc \notin {"dcf_assumptions", "dcf_calc", "raised"}

\* the stored stage-1 list, g, Ke and justifications are the reset defaults
StoredAreDefaults ==
    /\ StoredStage1 = ResetDcfAssumptions.fcfe_growth_stage1_pct
    /\ StoredG = ResetDcfAssumptions.perpetual_growth_rate_g_pct
    /\ StoredKe = ResetDcfAssumptions.cost_of_equity_ke_pct
    /\ dcf_assumptions.justification_fcfe_growth_stage1 = "NG"
    /\ dcf_assumptions.justification_perpetual_growth_rate_g = "NG"
    /\ dcf_assumptions.justification_ke = "NG"

\* the narrative prompt, if one was made, shows no stage-1 rates
NoStage1RatesInPrompt ==
    narrative_prompt # NULL =>
        Contains(narrative_prompt,
                 "- Stage 1 FCFE Growth Rates (" \o ToString(stage1_years)
                     \o " yrs): [N/A]")

\* C30: when the generator rejects an answer to the DCF request, at
\* whichever step, the stored stage-1 list, g, Ke and the three
\* justifications are still the reset defaults, and a narrative prompt made
\* later in the run presents no value of the rejected answer.
C30_RejectedLeavesNoTrace ==
    DcfRejected => (StoredAreDefaults /\ NoStage1RatesInPrompt)

\* what does hold of a rejected answer: g, Ke and the justifications are the
\* defaults, and the stage-1 list is either the default or the list of the
\* rejected answer, the latter only past the checks on the list itself
C30_RejectedKeepsKeAndG ==
    DcfRejected =>
        /\ IsNone(StoredG) /\ IsNone(StoredKe)
        /\ dcf_assumptions.justification_fcfe_growth_stage1 = "NG"
        /\ dcf_assumptions.justification_perpetual_growth_rate_g = "NG"
        /\ dcf_assumptions.justification_ke = "NG"
        /\ StoredStage1 # <<>> =>
               /\ AnswerTo("dcf").kind = "json"
               /\ Stage1Valid(AnswerTo("dcf"))
               /\ StoredStage1 = [i \in 1..stage1_years |->
                                     AnswerTo("dcf").s1.items[i].v]

\* g = 9.80 against Ke = 10.00 was rejected at the spread check; the run
\* returned a value by the multiples path and its narrative prompt shows
\* the stage-1 rates of the rejected answer
C30_RejectedRatesInPrompt ==
    /\ pc = "returned"
    /\ DcfRejected
    /\ AnswerTo("dcf") = DcfJson(DcfKeySet, FALSE, AList(GoodS1), Num(980),
                                 Num(1000))
    /\ StoredStage1 = [i \in 1..stage1_years |-> 500]
    /\ method_used = "P/E Multiples-Based"
    /\ Contains(narrative_prompt, " yrs): [5.0%")

=============================================================================
